---- MODULE Spec2Model ----
(***************************************************************************)
(* Model of the TMS catalog engine (TMSSystem, SecondaryIndex, AuditLog).  *)
(* State: the two primary maps, the five secondary indices, the audit log, *)
(* the wall clock and, for the multi-threaded specifications, each         *)
(* thread's position.  One action per public operation.  Fields of         *)
(* TapeVolume / Dataset that no operation modelled here reads (location,   *)
(* notes, health score, last_used, ...) are left out of the records.       *)
(* Times are seconds; 0 is the default-constructed time_point.             *)
(***************************************************************************)
EXTENDS Integers, Sequences, FiniteSets, TLC

VARIABLES
    volumes,               \* std::map<string, TapeVolume> volumes_
    datasets,              \* std::map<string, Dataset> datasets_
    volume_owner_index,    \* SecondaryIndex: owner -> volsers
    volume_pool_index,     \* SecondaryIndex: pool  -> volsers
    volume_tag_index,      \* SecondaryIndex: tag   -> volsers
    dataset_owner_index,   \* SecondaryIndex: owner -> dataset names
    dataset_tag_index,     \* SecondaryIndex: tag   -> dataset names
    records,               \* AuditLog::records_
    max_records,           \* AuditLog::max_records_
    pruned_count,          \* AuditLog::pruned_count_
    now,                   \* std::chrono::system_clock::now()
    current_user,          \* TMSSystem::current_user_
    max_volumes,           \* Configuration::get_max_volumes()
    max_datasets,          \* Configuration::get_max_datasets()
    snapshots,             \* SnapshotManager::snapshots_
    nops,                  \* number of calls that have changed the state
    last,                  \* the last call made and what it returned
    catalog_mutex,         \* std::shared_mutex catalog_mutex_: its owners
    pc,                    \* per thread: where it stands in the call it runs
    call,                  \* per thread: the arguments and locals of that call
    committed,             \* the catalog as the last exclusive unlock left it
    claimed,               \* SpecRace: volsers allocated and not scratched or deleted since
    batch                  \* the batch call in progress or just returned: its arguments, locals and result

catVars   == <<volumes, datasets, volume_owner_index, volume_pool_index,
               volume_tag_index, dataset_owner_index, dataset_tag_index>>
auditVars == <<records, max_records, pruned_count>>
envVars   == <<now, current_user, max_volumes, max_datasets, snapshots>>
thrVars   == <<catalog_mutex, pc, call, committed, claimed, batch>>
vars      == <<catVars, auditVars, envVars, nops, last, thrVars>>

----------------------------------------------------------------------------
(* Bounds of the model *)

MaxIdxOps == 4    \* state-changing calls per behaviour of SpecIdx
MaxDelOps == 5    \* state-changing calls per behaviour of SpecDel
MaxAuditOps == 4  \* state-changing calls per behaviour of SpecAudit
MaxResOps == 4    \* state-changing calls per behaviour of SpecRes
MaxLifeOps == 5   \* state-changing calls per behaviour of SpecLife
MaxAllocOps == 3  \* state-changing calls per behaviour of SpecAlloc
MaxRaceOps == 4   \* state-changing calls per behaviour of SpecRace
MaxConcOps == 3   \* state-changing calls per behaviour of SpecConc
MaxTime   == 3    \* the clock runs from 1 to MaxTime

(* Program constants *)

MAX_VOLSER_LENGTH        == 6
MAX_DATASET_NAME_LENGTH  == 44
MAX_TAG_LENGTH           == 32
AUDIT_CAPACITY           == 10000
DEFAULT_MAX_VOLUMES      == 100000
DEFAULT_MAX_DATASETS     == 1000000
VOLUME_RETENTION         == 31536000    \* hours(24 * 365) in seconds
DATASET_RETENTION        == 2592000     \* hours(24 * 30) in seconds

----------------------------------------------------------------------------
(* Strings.  TLC cannot look inside a string, so the bytes of every name   *)
(* the model uses are tabulated; validation and std::map's key order are   *)
(* computed on the bytes as the code computes them.                        *)

Bytes(s) ==
    CASE s = ""         -> <<>>
      [] s = "A01"      -> <<65, 48, 49>>
      [] s = "B01"      -> <<66, 48, 49>>
      [] s = "C01"      -> <<67, 48, 49>>
      [] s = "A1"       -> <<65, 49>>
      [] s = "a0"       -> <<97, 48>>
      [] s = "VOL-01"   -> <<86, 79, 76, 45, 48, 49>>
      [] s = "TOOLONG7" -> <<84, 79, 79, 76, 79, 78, 71, 55>>
      [] s = "D1"       -> <<68, 49>>
      [] s = "D2"       -> <<68, 50>>
      [] s = "D.3"      -> <<68, 46, 51>>
      [] s = "D 4"      -> <<68, 32, 52>>
      [] s = "T1"       -> <<84, 49>>
      [] s = "T2"       -> <<84, 50>>
      [] s = "T 3"      -> <<84, 32, 51>>

isalnum(c) == (c >= 48 /\ c <= 57) \/ (c >= 65 /\ c <= 90) \/ (c >= 97 /\ c <= 122)
isspace(c) == c = 32 \/ (c >= 9 /\ c <= 13)

validate_volser(volser) ==
    LET b == Bytes(volser) IN
    /\ Len(b) > 0
    /\ Len(b) <= MAX_VOLSER_LENGTH
    /\ \A i \in 1..Len(b) : isalnum(b[i])

validate_dataset_name(name) ==
    LET b == Bytes(name) IN
    /\ Len(b) > 0
    /\ Len(b) <= MAX_DATASET_NAME_LENGTH
    /\ \A i \in 1..Len(b) : isalnum(b[i]) \/ b[i] = 46 \/ b[i] = 45 \/ b[i] = 95

validate_tag(tag) ==
    LET b == Bytes(tag) IN
    /\ Len(b) > 0
    /\ Len(b) <= MAX_TAG_LENGTH
    /\ \A i \in 1..Len(b) : ~isspace(b[i])

\* std::less<std::string>: lexicographic on the bytes, a proper prefix first
RECURSIVE LexLess(_, _)
LexLess(a, b) ==
    IF b = <<>> THEN FALSE
    ELSE IF a = <<>> THEN TRUE
    ELSE IF Head(a) # Head(b) THEN Head(a) < Head(b)
    ELSE LexLess(Tail(a), Tail(b))

KeyLess(x, y) == LexLess(Bytes(x), Bytes(y))

\* the keys of a std::map in iteration order
RECURSIVE KeyOrder(_)
KeyOrder(S) ==
    IF S = {} THEN <<>>
    ELSE LET m == CHOOSE x \in S : \A y \in S \ {x} : KeyLess(x, y)
         IN  <<m>> \o KeyOrder(S \ {m})

----------------------------------------------------------------------------
(* SecondaryIndex<std::string>: attribute value -> set of keys *)

IndexFind(idx, attr_value) ==
    IF attr_value \in DOMAIN idx THEN idx[attr_value] ELSE {}

IndexAdd(idx, attr_value, key) ==
    IF attr_value = "" THEN idx
    ELSE [x \in DOMAIN idx \cup {attr_value} |->
             IF x = attr_value THEN IndexFind(idx, x) \cup {key} ELSE idx[x]]

IndexRemove(idx, attr_value, key) ==
    IF attr_value \notin DOMAIN idx THEN idx
    ELSE IF idx[attr_value] \ {key} = {}
         THEN [x \in DOMAIN idx \ {attr_value} |-> idx[x]]
         ELSE [idx EXCEPT ![attr_value] = @ \ {key}]

\* a faulty update that leaves the old entry behind; C1 does not survive it
IndexUpdate_KeepsOld(idx, old_value, new_value, key) == IndexAdd(idx, new_value, key)

IndexUpdate(idx, old_value, new_value, key) ==
    IndexAdd(IndexRemove(idx, old_value, key), new_value, key)

\* for (tag : tags) index.add(tag, key)
RECURSIVE IndexAddAll(_, _, _)
IndexAddAll(idx, tags, key) ==
    IF tags = {} THEN idx
    ELSE LET t == CHOOSE x \in tags : TRUE
         IN  IndexAddAll(IndexAdd(idx, t, key), tags \ {t}, key)

\* for (tag : tags) index.remove(tag, key)
RECURSIVE IndexRemoveAll(_, _, _)
IndexRemoveAll(idx, tags, key) ==
    IF tags = {} THEN idx
    ELSE LET t == CHOOSE x \in tags : TRUE
         IN  IndexRemoveAll(IndexRemove(idx, t, key), tags \ {t}, key)

\* the tag loops of update_volume / update_dataset
IndexRetag(idx, old_tags, new_tags, key) ==
    IndexAddAll(IndexRemoveAll(idx, old_tags \ new_tags, key),
                new_tags \ old_tags, key)

EmptyIndex == [x \in {} |-> {}]

----------------------------------------------------------------------------
(* AuditLog *)

\* a faulty prune that drops the newest records; C29 does not survive it
prune_Newest(recs, max, pruned) ==
    LET to_remove == max \div 5 IN
    IF to_remove > 0 /\ Len(recs) > to_remove
    THEN [records |-> SubSeq(recs, 1, Len(recs) - to_remove),
          pruned_count |-> pruned + to_remove]
    ELSE [records |-> recs, pruned_count |-> pruned]

prune(recs, max, pruned) ==
    LET to_remove == max \div 5 IN
    IF to_remove > 0 /\ Len(recs) > to_remove
    THEN [records |-> SubSeq(recs, to_remove + 1, Len(recs)),
          pruned_count |-> pruned + to_remove]
    ELSE [records |-> recs, pruned_count |-> pruned]

AuditLog_add(recs, max, pruned, record) ==
    LET pushed == Append(recs, record) IN
    IF Len(pushed) > max THEN prune(pushed, max, pruned)
    ELSE [records |-> pushed, pruned_count |-> pruned]

AuditRecord(operation, user, target) ==
    [operation |-> operation, user |-> user, target |-> target]

\* TMSSystem::add_audit_record, called by an operation after it has unlocked
add_audit_record(operation, target) ==
    LET r == AuditLog_add(records, max_records, pruned_count,
                          AuditRecord(operation, current_user, target)) IN
    /\ records' = r.records
    /\ pruned_count' = r.pruned_count
    /\ UNCHANGED max_records

----------------------------------------------------------------------------
(* TapeVolume and Dataset *)

TapeVolume ==
    [status |-> "SCRATCH", density |-> "LTO3", pool |-> "", owner |-> "",
     tags |-> {}, datasets |-> <<>>, used_bytes |-> 0, mount_count |-> 0,
     reserved_by |-> "", reservation_expires |-> 0,
     creation_date |-> 0, expiration_date |-> 0]

Dataset ==
    [volser |-> "", status |-> "ACTIVE", size_bytes |-> 0, owner |-> "",
     tags |-> {}, creation_date |-> 0, expiration_date |-> 0]

is_expired(vol, t) == vol.expiration_date < t

is_reserved(vol, t) == vol.reserved_by # "" /\ vol.reservation_expires > t

is_available_for_scratch(vol, t) ==
    vol.status = "SCRATCH" /\ ~is_reserved(vol, t) /\ ~is_expired(vol, t)

\* map[key] = value
Put(map, key, value) ==
    [x \in DOMAIN map \cup {key} |-> IF x = key THEN value ELSE map[x]]

\* map.erase(key)
Erase(map, key) == [x \in DOMAIN map \ {key} |-> map[x]]

\* ds_list.erase(std::remove(ds_list.begin(), ds_list.end(), name), ds_list.end())
RECURSIVE ListRemove(_, _)
ListRemove(list, name) ==
    IF list = <<>> THEN <<>>
    ELSE IF Head(list) = name THEN ListRemove(Tail(list), name)
    ELSE <<Head(list)>> \o ListRemove(Tail(list), name)

Range(list) == {list[i] : i \in 1..Len(list)}

----------------------------------------------------------------------------
(* How a call ends *)

\* last.arg is the call's second argument where a claim needs it (the force
\* flag, the reserving user, the pool), last.arg2 its third (the density),
\* last.ret the string returned and last.count the number returned
Result(op, key, arg, arg2, ok, err, ret, count) ==
    [op |-> op, key |-> key, arg |-> arg, arg2 |-> arg2, ok |-> ok, err |-> err,
     ret |-> ret, count |-> count]

Return(op, key, arg, ok, err, ret, count) ==
    last' = Result(op, key, arg, "", ok, err, ret, count)

\* a faulty error return that leaves a record in the audit log; C36 does not
\* survive it
FailA_Audited(op, key, arg, err) ==
    /\ Return(op, key, arg, FALSE, err, "", 0)
    /\ records' = Append(records, [operation |-> "FAILED", user |-> current_user,
                                    target |-> key])
    /\ UNCHANGED <<catVars, max_records, pruned_count, envVars, nops>>

\* an error return: nothing but the result changes
FailA(op, key, arg, err) ==
    /\ Return(op, key, arg, FALSE, err, "", 0)
    /\ UNCHANGED <<catVars, auditVars, envVars, nops>>

Fail(op, key, err) == FailA(op, key, "", err)

\* a call made while no other thread is inside the catalog: it runs from
\* entry to return without interference
Alone(max) == nops < max /\ UNCHANGED thrVars

OkA(op, key, arg, ret) ==
    /\ Return(op, key, arg, TRUE, "", ret, 0)
    /\ nops' = nops + 1
    /\ UNCHANGED envVars

Ok(op, key) == OkA(op, key, "", "")

----------------------------------------------------------------------------
(* Volume management *)

volVars == <<volumes, volume_owner_index, volume_pool_index, volume_tag_index>>
dsVars  == <<datasets, dataset_owner_index, dataset_tag_index>>

\* the defaults add_volume fills in (capacity and health score are not modelled)
add_volume_defaults(volume, t) ==
    LET created == IF volume.creation_date = 0 THEN t ELSE volume.creation_date IN
    [volume EXCEPT !.creation_date = created,
                   !.expiration_date = IF @ = 0 THEN created + VOLUME_RETENTION ELSE @]

add_volume(volser, volume) ==
    IF ~validate_volser(volser)
         THEN Fail("add_volume", volser, "INVALID_VOLSER")
       ELSE IF Cardinality(DOMAIN volumes) >= max_volumes
         THEN Fail("add_volume", volser, "VOLUME_LIMIT_REACHED")
       ELSE IF volser \in DOMAIN volumes
         THEN Fail("add_volume", volser, "VOLUME_ALREADY_EXISTS")
       ELSE LET vol == add_volume_defaults(volume, now) IN
            /\ volumes' = Put(volumes, volser, vol)
            /\ volume_owner_index' = IndexAdd(volume_owner_index, vol.owner, volser)
            /\ volume_pool_index' = IndexAdd(volume_pool_index, vol.pool, volser)
            /\ volume_tag_index' = IndexAddAll(volume_tag_index, vol.tags, volser)
            /\ add_audit_record("ADD_VOLUME", volser)
            /\ Ok("add_volume", volser)
            /\ UNCHANGED dsVars

\* a faulty loop that erases the listed datasets and leaves their index entries;
\* C18 does not survive it
RECURSIVE erase_listed_datasets_KeepsIndex(_, _)
erase_listed_datasets_KeepsIndex(st, list) ==
    IF list = <<>> THEN st
    ELSE erase_listed_datasets_KeepsIndex(
            [st EXCEPT !.datasets = Erase(st.datasets, Head(list))], Tail(list))

\* the force branch of delete_volume and the loop of scratch_volume:
\* every listed name that is stored leaves the dataset map and its indices
RECURSIVE erase_listed_datasets(_, _)
erase_listed_datasets(st, list) ==
    IF list = <<>> THEN st
    ELSE LET ds_name == Head(list) IN
         IF ds_name \in DOMAIN st.datasets
         THEN erase_listed_datasets(
                [datasets |-> Erase(st.datasets, ds_name),
                 owner_index |-> IndexRemove(st.owner_index,
                                             st.datasets[ds_name].owner, ds_name),
                 tag_index |-> IndexRemoveAll(st.tag_index,
                                              st.datasets[ds_name].tags, ds_name)],
                Tail(list))
         ELSE erase_listed_datasets(st, Tail(list))

DatasetState ==
    [datasets |-> datasets, owner_index |-> dataset_owner_index,
     tag_index |-> dataset_tag_index]

\* a faulty check that lets force override a reservation; C25 does not
\* survive it
delete_volume_error_ForceOverrides(vols, volser, force, t) ==
    IF volser \notin DOMAIN vols THEN "VOLUME_NOT_FOUND"
    ELSE IF ~force /\ vols[volser].datasets # <<>> THEN "VOLUME_HAS_DATASETS"
    ELSE IF vols[volser].status = "MOUNTED" THEN "VOLUME_MOUNTED"
    ELSE IF ~force /\ is_reserved(vols[volser], t) THEN "VOLUME_RESERVED"
    ELSE ""

\* the error delete_volume returns in this state, "" when it goes ahead
delete_volume_error(vols, volser, force, t) ==
    IF volser \notin DOMAIN vols THEN "VOLUME_NOT_FOUND"
    ELSE IF ~force /\ vols[volser].datasets # <<>> THEN "VOLUME_HAS_DATASETS"
    ELSE IF vols[volser].status = "MOUNTED" THEN "VOLUME_MOUNTED"
    ELSE IF is_reserved(vols[volser], t) THEN "VOLUME_RESERVED"
    ELSE ""

ForceArg(force) == IF force THEN "force" ELSE ""

delete_volume(volser, force) ==
    LET err == delete_volume_error(volumes, volser, force, now) IN
    IF err # "" THEN FailA("delete_volume", volser, ForceArg(force), err)
       ELSE LET vol == volumes[volser]
                st  == IF force THEN erase_listed_datasets(DatasetState, vol.datasets)
                       ELSE DatasetState
            IN
            /\ volume_owner_index' = IndexRemove(volume_owner_index, vol.owner, volser)
            /\ volume_pool_index' = IndexRemove(volume_pool_index, vol.pool, volser)
            /\ volume_tag_index' = IndexRemoveAll(volume_tag_index, vol.tags, volser)
            /\ datasets' = st.datasets
            /\ dataset_owner_index' = st.owner_index
            /\ dataset_tag_index' = st.tag_index
            /\ volumes' = Erase(volumes, volser)
            /\ add_audit_record("DELETE_VOLUME", volser)
            /\ OkA("delete_volume", volser, ForceArg(force), "")

update_volume(volser, volume) ==
    IF volser \notin DOMAIN volumes
         THEN Fail("update_volume", volser, "VOLUME_NOT_FOUND")
       ELSE LET old == volumes[volser] IN
            /\ volume_owner_index' =
                 IF old.owner # volume.owner
                 THEN IndexUpdate(volume_owner_index, old.owner, volume.owner, volser)
                 ELSE volume_owner_index
            /\ volume_pool_index' =
                 IF old.pool # volume.pool
                 THEN IndexUpdate(volume_pool_index, old.pool, volume.pool, volser)
                 ELSE volume_pool_index
            /\ volume_tag_index' =
                 IndexRetag(volume_tag_index, old.tags, volume.tags, volser)
            /\ volumes' = [volumes EXCEPT ![volser] = volume]
            /\ add_audit_record("UPDATE_VOLUME", volser)
            /\ Ok("update_volume", volser)
            /\ UNCHANGED dsVars

\* get_volumes_by_owner / get_volumes_by_pool / find_volumes_by_tag: the volsers
\* of the records returned
get_volumes_by_owner(owner) ==
    {k \in IndexFind(volume_owner_index, owner) : k \in DOMAIN volumes}
get_volumes_by_pool(pool) ==
    {k \in IndexFind(volume_pool_index, pool) : k \in DOMAIN volumes}
find_volumes_by_tag(tag) ==
    {k \in IndexFind(volume_tag_index, tag) : k \in DOMAIN volumes}

----------------------------------------------------------------------------
(* Dataset management *)

add_dataset_defaults(dataset, t) ==
    LET created == IF dataset.creation_date = 0 THEN t ELSE dataset.creation_date IN
    [dataset EXCEPT !.creation_date = created,
                    !.expiration_date = IF @ = 0 THEN created + DATASET_RETENTION ELSE @]

\* a faulty addition that makes the volume PRIVATE whatever it was; C15 does not
\* survive it
add_dataset_to_volume_AlwaysPrivate(vol, name, size_bytes) ==
    [vol EXCEPT !.datasets = Append(@, name),
                !.used_bytes = @ + size_bytes,
                !.status = "PRIVATE"]

\* what add_dataset does to the volume that receives the dataset; used_bytes is
\* a uint64_t, and the sizes drawn below stay far from 2^64
add_dataset_to_volume(vol, name, size_bytes) ==
    [vol EXCEPT !.datasets = Append(@, name),
                !.used_bytes = @ + size_bytes,
                !.status = IF @ = "SCRATCH" THEN "PRIVATE" ELSE @]

add_dataset(name, dataset) ==
    IF ~validate_dataset_name(name)
         THEN Fail("add_dataset", name, "INVALID_DATASET_NAME")
       ELSE IF Cardinality(DOMAIN datasets) >= max_datasets
         THEN Fail("add_dataset", name, "DATASET_LIMIT_REACHED")
       ELSE IF name \in DOMAIN datasets
         THEN Fail("add_dataset", name, "DATASET_ALREADY_EXISTS")
       ELSE IF dataset.volser \notin DOMAIN volumes
         THEN Fail("add_dataset", name, "VOLUME_NOT_FOUND")
       ELSE LET ds == add_dataset_defaults(dataset, now) IN
            /\ datasets' = Put(datasets, name, ds)
            /\ dataset_owner_index' = IndexAdd(dataset_owner_index, ds.owner, name)
            /\ dataset_tag_index' = IndexAddAll(dataset_tag_index, ds.tags, name)
            /\ volumes' = [volumes EXCEPT ![ds.volser] =
                             add_dataset_to_volume(@, name, ds.size_bytes)]
            /\ add_audit_record("ADD_DATASET", name)
            /\ Ok("add_dataset", name)
            /\ UNCHANGED <<volume_owner_index, volume_pool_index, volume_tag_index>>

\* a faulty removal that leaves used_bytes as it was; C3 does not survive it
delete_dataset_from_volume_KeepsBytes(vol, name, size_bytes) ==
    LET ds_list == ListRemove(vol.datasets, name) IN
    [vol EXCEPT !.datasets = ds_list,
                !.status = IF ds_list = <<>> /\ @ = "PRIVATE" THEN "SCRATCH" ELSE @]

\* a faulty removal that leaves the status as it was; C4 does not survive it
delete_dataset_from_volume_KeepsStatus(vol, name, size_bytes) ==
    [vol EXCEPT !.datasets = ListRemove(vol.datasets, name),
                !.used_bytes = IF @ >= size_bytes THEN @ - size_bytes ELSE 0]

\* what delete_dataset does to the volume the dataset's volser names
delete_dataset_from_volume(vol, name, size_bytes) ==
    LET ds_list == ListRemove(vol.datasets, name) IN
    [vol EXCEPT !.datasets = ds_list,
                !.used_bytes = IF @ >= size_bytes THEN @ - size_bytes ELSE 0,
                !.status = IF ds_list = <<>> /\ @ = "PRIVATE" THEN "SCRATCH" ELSE @]

delete_dataset(name) ==
    IF name \notin DOMAIN datasets
         THEN Fail("delete_dataset", name, "DATASET_NOT_FOUND")
       ELSE LET ds == datasets[name] IN
            /\ volumes' = IF ds.volser \in DOMAIN volumes
                          THEN [volumes EXCEPT ![ds.volser] =
                                  delete_dataset_from_volume(@, name, ds.size_bytes)]
                          ELSE volumes
            /\ dataset_owner_index' = IndexRemove(dataset_owner_index, ds.owner, name)
            /\ dataset_tag_index' = IndexRemoveAll(dataset_tag_index, ds.tags, name)
            /\ datasets' = Erase(datasets, name)
            /\ add_audit_record("DELETE_DATASET", name)
            /\ Ok("delete_dataset", name)
            /\ UNCHANGED <<volume_owner_index, volume_pool_index, volume_tag_index>>

update_dataset(name, dataset) ==
    IF name \notin DOMAIN datasets
         THEN Fail("update_dataset", name, "DATASET_NOT_FOUND")
       ELSE LET old == datasets[name] IN
            /\ dataset_owner_index' =
                 IF old.owner # dataset.owner
                 THEN IndexUpdate(dataset_owner_index, old.owner, dataset.owner, name)
                 ELSE dataset_owner_index
            /\ dataset_tag_index' =
                 IndexRetag(dataset_tag_index, old.tags, dataset.tags, name)
            /\ datasets' = [datasets EXCEPT ![name] = dataset]
            /\ add_audit_record("UPDATE_DATASET", name)
            /\ Ok("update_dataset", name)
            /\ UNCHANGED volVars

get_datasets_by_owner(owner) ==
    {k \in IndexFind(dataset_owner_index, owner) : k \in DOMAIN datasets}
find_datasets_by_tag(tag) ==
    {k \in IndexFind(dataset_tag_index, tag) : k \in DOMAIN datasets}

\* list_datasets_on_volume: the stored datasets whose volser field is volser
list_datasets_on_volume(volser) ==
    {n \in DOMAIN datasets : datasets[n].volser = volser}

----------------------------------------------------------------------------
(* Tagging *)

add_volume_tag(volser, tag) ==
    IF ~validate_tag(tag) THEN FailA("add_volume_tag", volser, tag, "INVALID_TAG")
    ELSE IF volser \notin DOMAIN volumes
      THEN FailA("add_volume_tag", volser, tag, "VOLUME_NOT_FOUND")
    ELSE /\ volumes' = [volumes EXCEPT ![volser].tags = @ \cup {tag}]
         /\ volume_tag_index' = IndexAdd(volume_tag_index, tag, volser)
         /\ add_audit_record("ADD_TAG", volser)
         /\ OkA("add_volume_tag", volser, tag, "")
         /\ UNCHANGED <<volume_owner_index, volume_pool_index, dsVars>>

remove_volume_tag(volser, tag) ==
    IF volser \notin DOMAIN volumes
      THEN FailA("remove_volume_tag", volser, tag, "VOLUME_NOT_FOUND")
    ELSE /\ volumes' = [volumes EXCEPT ![volser].tags = @ \ {tag}]
         /\ volume_tag_index' = IndexRemove(volume_tag_index, tag, volser)
         /\ add_audit_record("REMOVE_TAG", volser)
         /\ OkA("remove_volume_tag", volser, tag, "")
         /\ UNCHANGED <<volume_owner_index, volume_pool_index, dsVars>>

\* add_dataset_tag and remove_dataset_tag return without add_audit_record
add_dataset_tag(name, tag) ==
    IF ~validate_tag(tag) THEN FailA("add_dataset_tag", name, tag, "INVALID_TAG")
    ELSE IF name \notin DOMAIN datasets
      THEN FailA("add_dataset_tag", name, tag, "DATASET_NOT_FOUND")
    ELSE /\ datasets' = [datasets EXCEPT ![name].tags = @ \cup {tag}]
         /\ dataset_tag_index' = IndexAdd(dataset_tag_index, tag, name)
         /\ OkA("add_dataset_tag", name, tag, "")
         /\ UNCHANGED <<volVars, dataset_owner_index, auditVars>>

remove_dataset_tag(name, tag) ==
    IF name \notin DOMAIN datasets
      THEN FailA("remove_dataset_tag", name, tag, "DATASET_NOT_FOUND")
    ELSE /\ datasets' = [datasets EXCEPT ![name].tags = @ \ {tag}]
         /\ dataset_tag_index' = IndexRemove(dataset_tag_index, tag, name)
         /\ OkA("remove_dataset_tag", name, tag, "")
         /\ UNCHANGED <<volVars, dataset_owner_index, auditVars>>

----------------------------------------------------------------------------
(* Bulk tagging: add_volume_tag per item, each with its own audit record,   *)
(* then one BULK_ADD_TAG record whatever the number of items that succeeded *)

\* the loop over volsers; st carries the volume map, the tag index, the audit
\* log and the succeeded count from item to item
RECURSIVE add_tag_loop(_, _, _, _)
add_tag_loop(st, volsers, tag, user) ==
    IF volsers = <<>> THEN st
    ELSE LET volser == Head(volsers)
             logged == AuditLog_add(st.records, st.max_records, st.pruned_count,
                                    AuditRecord("ADD_TAG", user, volser))
             next == IF volser \notin DOMAIN st.volumes THEN st
                     ELSE [st EXCEPT !.volumes[volser].tags = @ \cup {tag},
                                     !.tag_index = IndexAdd(@, tag, volser),
                                     !.records = logged.records,
                                     !.pruned_count = logged.pruned_count,
                                     !.succeeded = @ + 1]
         IN  add_tag_loop(next, Tail(volsers), tag, user)

add_tag_to_volumes(volsers, tag) ==
    IF ~validate_tag(tag)
      THEN /\ Return("add_tag_to_volumes", tag, "", FALSE, "INVALID_TAG", "", 0)
           /\ UNCHANGED <<catVars, auditVars, envVars, nops>>
    ELSE LET st == add_tag_loop([volumes |-> volumes, tag_index |-> volume_tag_index,
                                 records |-> records, max_records |-> max_records,
                                 pruned_count |-> pruned_count, succeeded |-> 0],
                                volsers, tag, current_user)
             logged == AuditLog_add(st.records, st.max_records, st.pruned_count,
                                    AuditRecord("BULK_ADD_TAG", current_user, tag))
         IN
         /\ volumes' = st.volumes
         /\ volume_tag_index' = st.tag_index
         /\ records' = logged.records
         /\ pruned_count' = logged.pruned_count
         /\ Return("add_tag_to_volumes", tag, "", st.succeeded = Len(volsers), "", "",
                   st.succeeded)
         /\ nops' = nops + 1
         /\ UNCHANGED <<volume_owner_index, volume_pool_index, dsVars, max_records, envVars>>

----------------------------------------------------------------------------
(* Reservation *)

\* a faulty check that ignores the current holder; C5 does not survive it
reserve_volume_error_AnyUser(vols, volser, user, t) ==
    IF volser \notin DOMAIN vols THEN "VOLUME_NOT_FOUND" ELSE ""

\* the error reserve_volume returns in this state, "" when it goes ahead
reserve_volume_error(vols, volser, user, t) ==
    IF volser \notin DOMAIN vols THEN "VOLUME_NOT_FOUND"
    ELSE IF is_reserved(vols[volser], t) /\ vols[volser].reserved_by # user
      THEN "VOLUME_RESERVED"
    ELSE ""

reserve_volume(volser, user, duration) ==
    LET err == reserve_volume_error(volumes, volser, user, now) IN
    IF err # "" THEN FailA("reserve_volume", volser, user, err)
    ELSE /\ volumes' = [volumes EXCEPT ![volser].reserved_by = user,
                                       ![volser].reservation_expires = now + duration]
         /\ add_audit_record("RESERVE_VOLUME", volser)
         /\ OkA("reserve_volume", volser, user, "")
         /\ UNCHANGED <<volume_owner_index, volume_pool_index, volume_tag_index, dsVars>>

\* a faulty check that lets any user release; C22 does not survive it
release_volume_error_AnyUser(vols, volser, user, t) ==
    IF volser \notin DOMAIN vols THEN "VOLUME_NOT_FOUND"
    ELSE IF ~is_reserved(vols[volser], t) THEN "INVALID_STATE"
    ELSE ""

\* the error release_volume returns in this state, "" when it goes ahead
release_volume_error(vols, volser, user, t) ==
    IF volser \notin DOMAIN vols THEN "VOLUME_NOT_FOUND"
    ELSE IF ~is_reserved(vols[volser], t) THEN "INVALID_STATE"
    ELSE IF vols[volser].reserved_by # user THEN "ACCESS_DENIED"
    ELSE ""

release_volume(volser, user) ==
    LET err == release_volume_error(volumes, volser, user, now) IN
    IF err # "" THEN FailA("release_volume", volser, user, err)
    ELSE /\ volumes' = [volumes EXCEPT ![volser].reserved_by = "",
                                       ![volser].reservation_expires = 0]
         /\ add_audit_record("RELEASE_VOLUME", volser)
         /\ OkA("release_volume", volser, user, "")
         /\ UNCHANGED <<volume_owner_index, volume_pool_index, volume_tag_index, dsVars>>

\* a number of seconds as it is kept in a result
SecondsArg(seconds) == <<"0s", "1s", "2s", "3s">>[seconds + 1]

\* a faulty extend that accepts a reservation that has run out; C23 does not
\* survive it
extend_reservation_Stale(volser, user, additional_time) ==
    IF volser \notin DOMAIN volumes
      THEN FailA("extend_reservation", volser, user, "VOLUME_NOT_FOUND")
    ELSE IF volumes[volser].reserved_by # user
      THEN FailA("extend_reservation", volser, user, "ACCESS_DENIED")
    ELSE /\ volumes' = [volumes EXCEPT
                          ![volser].reservation_expires = @ + additional_time]
         /\ add_audit_record("EXTEND_RESERVATION", volser)
         /\ last' = Result("extend_reservation", volser, user,
                           SecondsArg(additional_time), TRUE, "", "", 0)
         /\ nops' = nops + 1
         /\ UNCHANGED <<volume_owner_index, volume_pool_index, volume_tag_index,
                        dsVars, envVars>>

extend_reservation(volser, user, additional_time) ==
    IF volser \notin DOMAIN volumes
      THEN FailA("extend_reservation", volser, user, "VOLUME_NOT_FOUND")
    ELSE IF ~is_reserved(volumes[volser], now) \/ volumes[volser].reserved_by # user
      THEN FailA("extend_reservation", volser, user, "ACCESS_DENIED")
    ELSE /\ volumes' = [volumes EXCEPT
                          ![volser].reservation_expires = @ + additional_time]
         /\ add_audit_record("EXTEND_RESERVATION", volser)
         /\ last' = Result("extend_reservation", volser, user,
                           SecondsArg(additional_time), TRUE, "", "", 0)
         /\ nops' = nops + 1
         /\ UNCHANGED envVars
         /\ UNCHANGED <<volume_owner_index, volume_pool_index, volume_tag_index, dsVars>>

\* a faulty test that spares the reservation that expires now; C24 does not
\* survive it
stale_reservations_Strict(vols, t) ==
    {v \in DOMAIN vols : vols[v].reserved_by # "" /\ vols[v].reservation_expires < t}

\* the volumes cleanup_expired_reservations clears
stale_reservations(vols, t) ==
    {v \in DOMAIN vols : vols[v].reserved_by # "" /\ vols[v].reservation_expires <= t}

cleanup_expired_reservations ==
    LET stale == stale_reservations(volumes, now)
        count == Cardinality(stale)
    IN
    /\ volumes' = [v \in DOMAIN volumes |->
                     IF v \in stale
                     THEN [volumes[v] EXCEPT !.reserved_by = "", !.reservation_expires = 0]
                     ELSE volumes[v]]
    /\ IF count > 0 THEN add_audit_record("CLEANUP_RESERVATIONS", "")
                    ELSE UNCHANGED auditVars
    /\ Return("cleanup_expired_reservations", "", "", TRUE, "", "", count)
    /\ nops' = IF count > 0 THEN nops + 1 ELSE nops
    /\ UNCHANGED <<volume_owner_index, volume_pool_index, volume_tag_index, dsVars,
                   envVars>>

----------------------------------------------------------------------------
(* Tape operations *)

idxVars == <<volume_owner_index, volume_pool_index, volume_tag_index>>

\* a faulty mount that does not look for a mount in progress; C16 does not
\* survive it
mount_volume_Again(volser) ==
    IF volser \notin DOMAIN volumes THEN Fail("mount_volume", volser, "VOLUME_NOT_FOUND")
    ELSE IF volumes[volser].status = "OFFLINE"
      THEN Fail("mount_volume", volser, "VOLUME_OFFLINE")
    ELSE /\ volumes' = [volumes EXCEPT ![volser].status = "MOUNTED",
                                       ![volser].mount_count = @ + 1]
         /\ add_audit_record("MOUNT_VOLUME", volser)
         /\ Ok("mount_volume", volser)
         /\ UNCHANGED <<idxVars, dsVars>>

mount_volume(volser) ==
    IF volser \notin DOMAIN volumes THEN Fail("mount_volume", volser, "VOLUME_NOT_FOUND")
    ELSE IF volumes[volser].status = "MOUNTED"
      THEN Fail("mount_volume", volser, "VOLUME_MOUNTED")
    ELSE IF volumes[volser].status = "OFFLINE"
      THEN Fail("mount_volume", volser, "VOLUME_OFFLINE")
    ELSE /\ volumes' = [volumes EXCEPT ![volser].status = "MOUNTED",
                                       ![volser].mount_count = @ + 1]
         /\ add_audit_record("MOUNT_VOLUME", volser)
         /\ Ok("mount_volume", volser)
         /\ UNCHANGED <<idxVars, dsVars>>

\* a faulty rule that always answers PRIVATE; C17 does not survive it
status_from_datasets_Private(vol) == "PRIVATE"

\* the status dismount_volume and set_volume_online give a volume
status_from_datasets(vol) == IF vol.datasets = <<>> THEN "SCRATCH" ELSE "PRIVATE"

dismount_volume(volser) ==
    IF volser \notin DOMAIN volumes
      THEN Fail("dismount_volume", volser, "VOLUME_NOT_FOUND")
    ELSE IF volumes[volser].status # "MOUNTED"
      THEN Fail("dismount_volume", volser, "VOLUME_NOT_MOUNTED")
    ELSE /\ volumes' = [volumes EXCEPT ![volser].status = status_from_datasets(volumes[volser])]
         /\ add_audit_record("DISMOUNT_VOLUME", volser)
         /\ Ok("dismount_volume", volser)
         /\ UNCHANGED <<idxVars, dsVars>>

scratch_volume(volser) ==
    IF volser \notin DOMAIN volumes
      THEN Fail("scratch_volume", volser, "VOLUME_NOT_FOUND")
    ELSE IF volumes[volser].status = "MOUNTED"
      THEN Fail("scratch_volume", volser, "VOLUME_MOUNTED")
    ELSE LET st == erase_listed_datasets(DatasetState, volumes[volser].datasets) IN
         /\ datasets' = st.datasets
         /\ dataset_owner_index' = st.owner_index
         /\ dataset_tag_index' = st.tag_index
         /\ volumes' = [volumes EXCEPT ![volser].datasets = <<>>,
                                       ![volser].used_bytes = 0,
                                       ![volser].status = "SCRATCH"]
         /\ add_audit_record("SCRATCH_VOLUME", volser)
         /\ Ok("scratch_volume", volser)
         /\ UNCHANGED idxVars

\* a faulty migrate that does not look at the status; C20 does not survive it
migrate_dataset_Always(name) ==
    IF name \notin DOMAIN datasets
      THEN Fail("migrate_dataset", name, "DATASET_NOT_FOUND")
    ELSE /\ datasets' = [datasets EXCEPT ![name].status = "MIGRATED"]
         /\ add_audit_record("MIGRATE_DATASET", name)
         /\ Ok("migrate_dataset", name)
         /\ UNCHANGED <<volVars, dataset_owner_index, dataset_tag_index>>

migrate_dataset(name) ==
    IF name \notin DOMAIN datasets
      THEN Fail("migrate_dataset", name, "DATASET_NOT_FOUND")
    ELSE IF datasets[name].status = "MIGRATED"
      THEN Fail("migrate_dataset", name, "DATASET_MIGRATED")
    ELSE /\ datasets' = [datasets EXCEPT ![name].status = "MIGRATED"]
         /\ add_audit_record("MIGRATE_DATASET", name)
         /\ Ok("migrate_dataset", name)
         /\ UNCHANGED <<volVars, dataset_owner_index, dataset_tag_index>>

recall_dataset(name) ==
    IF name \notin DOMAIN datasets
      THEN Fail("recall_dataset", name, "DATASET_NOT_FOUND")
    ELSE IF datasets[name].status # "MIGRATED"
      THEN Fail("recall_dataset", name, "INVALID_STATE")
    ELSE /\ datasets' = [datasets EXCEPT ![name].status = "RECALLED"]
         /\ add_audit_record("RECALL_DATASET", name)
         /\ Ok("recall_dataset", name)
         /\ UNCHANGED <<volVars, dataset_owner_index, dataset_tag_index>>

set_volume_offline(volser) ==
    IF volser \notin DOMAIN volumes
      THEN Fail("set_volume_offline", volser, "VOLUME_NOT_FOUND")
    ELSE IF volumes[volser].status = "MOUNTED"
      THEN Fail("set_volume_offline", volser, "VOLUME_MOUNTED")
    ELSE /\ volumes' = [volumes EXCEPT ![volser].status = "OFFLINE"]
         /\ add_audit_record("SET_OFFLINE", volser)
         /\ Ok("set_volume_offline", volser)
         /\ UNCHANGED <<idxVars, dsVars>>

set_volume_online(volser) ==
    IF volser \notin DOMAIN volumes
      THEN Fail("set_volume_online", volser, "VOLUME_NOT_FOUND")
    ELSE IF volumes[volser].status # "OFFLINE"
      THEN Fail("set_volume_online", volser, "INVALID_STATE")
    ELSE /\ volumes' = [volumes EXCEPT ![volser].status = status_from_datasets(volumes[volser])]
         /\ add_audit_record("SET_ONLINE", volser)
         /\ Ok("set_volume_online", volser)
         /\ UNCHANGED <<idxVars, dsVars>>

----------------------------------------------------------------------------
(* Scratch pool *)

\* the filters of allocate_scratch_volume; "" is the empty pool / no density
allocate_matches(vol, pool, density, t) ==
    /\ is_available_for_scratch(vol, t)
    /\ pool = "" \/ vol.pool = pool
    /\ density = "" \/ vol.density = density

\* a faulty scan that stops at the last match instead of the first; C6 does
\* not survive it
allocate_scan_Last(vols, pool, density, t) ==
    LET order == KeyOrder(DOMAIN vols)
        hits  == {i \in 1..Len(order) : allocate_matches(vols[order[i]], pool, density, t)}
    IN  IF hits = {} THEN ""
        ELSE order[CHOOSE i \in hits : \A j \in hits : i >= j]

\* the volume the scan of allocate_scratch_volume stops at: the first match in
\* the map's key order, "" when the loop runs to the end
allocate_scan(vols, pool, density, t) ==
    LET order == KeyOrder(DOMAIN vols)
        hits  == {i \in 1..Len(order) : allocate_matches(vols[order[i]], pool, density, t)}
    IN  IF hits = {} THEN ""
        ELSE order[CHOOSE i \in hits : \A j \in hits : i <= j]

allocate_scratch_volume(pool, density) ==
    LET volser == allocate_scan(volumes, pool, density, now) IN
    IF volser = ""
      THEN /\ last' = Result("allocate_scratch_volume", "", pool, density, FALSE,
                             "NO_SCRATCH_AVAILABLE", "", 0)
           /\ UNCHANGED <<catVars, auditVars, envVars, nops>>
    ELSE /\ volumes' = [volumes EXCEPT ![volser].status = "PRIVATE"]
         /\ add_audit_record("ALLOCATE_SCRATCH", volser)
         /\ last' = Result("allocate_scratch_volume", "", pool, density, TRUE, "",
                           volser, 0)
         /\ nops' = nops + 1
         /\ UNCHANGED <<idxVars, dsVars, envVars>>

\* a faulty get_scratch_pool that never breaks out of its loop; C33 does not
\* survive it
get_scratch_pool_NoBreak(count, pool) ==
    LET order == KeyOrder(DOMAIN volumes) IN
    SelectSeq(order, LAMBDA v : is_available_for_scratch(volumes[v], now)
                                 /\ (pool = "" \/ volumes[v].pool = pool))

\* get_scratch_pool(count, pool): the loop over volumes_ in key order, which
\* breaks once count volsers are collected when count > 0
get_scratch_pool(count, pool) ==
    LET order == KeyOrder(DOMAIN volumes)
        RECURSIVE scan(_, _)
        scan(i, result) ==
            IF i > Len(order) THEN result
            ELSE IF /\ is_available_for_scratch(volumes[order[i]], now)
                    /\ (pool = "" \/ volumes[order[i]].pool = pool)
                 THEN LET pushed == Append(result, order[i]) IN
                      IF count > 0 /\ Len(pushed) >= count THEN pushed
                      ELSE scan(i + 1, pushed)
                 ELSE scan(i + 1, result)
    IN  scan(1, <<>>)

----------------------------------------------------------------------------
(* The clock and the acting user *)

Tick ==
    /\ now < MaxTime
    /\ now' = now + 1
    /\ UNCHANGED <<catVars, auditVars, current_user, max_volumes, max_datasets, snapshots,
                   nops, last>>

set_current_user(user) ==
    /\ current_user' = user
    /\ UNCHANGED <<catVars, auditVars, now, max_volumes, max_datasets, snapshots,
                   nops, last>>

----------------------------------------------------------------------------
(* Threads and the catalog lock *)

Threads == {"t1", "t2"}

\* catalog_mutex_ held by nobody
Unlocked == [writer |-> "", readers |-> {}]

\* std::unique_lock<std::shared_mutex> can be taken
lock_exclusive_ok(m) == m.writer = "" /\ m.readers = {}

\* a faulty shared lock that does not wait for the writer; C8 does not survive it
lock_shared_ok_Always(m) == TRUE

\* std::shared_lock<std::shared_mutex> can be taken
lock_shared_ok(m) == m.writer = ""

\* no batch call has been made: BatchResult{} and no locals
NoBatch ==
    [op |-> "", items |-> <<>>, force |-> FALSE, requested |-> 0,
     workers |-> <<>>, phase |-> "idle", total |-> 0, succeeded |-> 0,
     failed |-> 0, failures |-> <<>>, calls |-> <<>>, outcomes |-> <<>>,
     start |-> <<>>]

\* a thread outside any call
NoCall == [op |-> "", key |-> "", arg |-> "", volume |-> TapeVolume,
           ref |-> "", dangling |-> FALSE, keys |-> {}, result |-> {}]

\* the part of the catalog the volume lookups read
Catalog(vols, owner_index, pool_index, tag_index) ==
    [volumes |-> vols, owner_index |-> owner_index, pool_index |-> pool_index,
     tag_index |-> tag_index]

----------------------------------------------------------------------------
(* Construction: an empty data directory, so load_catalog finds no files *)

Init ==
    /\ volumes = [x \in {} |-> TapeVolume]
    /\ datasets = [x \in {} |-> Dataset]
    /\ volume_owner_index = EmptyIndex
    /\ volume_pool_index = EmptyIndex
    /\ volume_tag_index = EmptyIndex
    /\ dataset_owner_index = EmptyIndex
    /\ dataset_tag_index = EmptyIndex
    /\ records = <<>>
    /\ max_records = AUDIT_CAPACITY
    /\ pruned_count = 0
    /\ now = 1
    /\ current_user = "SYSTEM"
    /\ max_volumes = DEFAULT_MAX_VOLUMES
    /\ max_datasets = DEFAULT_MAX_DATASETS
    /\ snapshots = <<>>
    /\ nops = 0
    /\ last = Result("construct", "", "", "", TRUE, "", "", 0)
    /\ catalog_mutex = Unlocked
    /\ pc = [t \in Threads |-> "idle"]
    /\ call = [t \in Threads |-> NoCall]
    /\ committed = Catalog(volumes, volume_owner_index, volume_pool_index,
                           volume_tag_index)
    /\ claimed = {}
    /\ batch = NoBatch

----------------------------------------------------------------------------
(* Index consistency under add / update / delete of volumes and datasets. *)
(* add_* get a freshly built record; update_* get the stored record with    *)
(* the owner, pool, tags (and, for a dataset, the volser) set by the caller *)
(* (get, modify, update).                                                   *)

IdxVolsers  == {"A01", "B01"}
IdxNames    == {"D1", "D2"}
IdxVolAttrs == {<<"", "", {}>>, <<"U1", "P1", {"T1"}>>, <<"U2", "P1", {"T1", "T2"}>>}
IdxDsAttrs  == {<<"", {}>>, <<"U1", {"T1"}>>, <<"U2", {"T1", "T2"}>>}
IdxValues   == {"", "U1", "U2", "P1", "T1", "T2"}

WithVolAttrs(volume, a) == [volume EXCEPT !.owner = a[1], !.pool = a[2], !.tags = a[3]]
WithDsAttrs(dataset, v, a) ==
    [dataset EXCEPT !.volser = v, !.owner = a[1], !.tags = a[2]]

StoredVolume(v) == IF v \in DOMAIN volumes THEN volumes[v] ELSE TapeVolume
StoredDataset(n) == IF n \in DOMAIN datasets THEN datasets[n] ELSE Dataset

NextIdx ==
    \/ \E v \in IdxVolsers, a \in IdxVolAttrs :
          Alone(MaxIdxOps) /\ add_volume(v, WithVolAttrs(TapeVolume, a))
    \/ \E v \in IdxVolsers, a \in IdxVolAttrs :
          Alone(MaxIdxOps) /\ update_volume(v, WithVolAttrs(StoredVolume(v), a))
    \/ \E v \in IdxVolsers, force \in BOOLEAN :
          Alone(MaxIdxOps) /\ delete_volume(v, force)
    \/ \E n \in IdxNames, v \in IdxVolsers, a \in IdxDsAttrs :
          Alone(MaxIdxOps)
          /\ add_dataset(n, WithDsAttrs([Dataset EXCEPT !.size_bytes = 1], v, a))
    \/ \E n \in IdxNames, v \in IdxVolsers, a \in IdxDsAttrs :
          Alone(MaxIdxOps) /\ update_dataset(n, WithDsAttrs(StoredDataset(n), v, a))
    \/ \E n \in IdxNames : Alone(MaxIdxOps) /\ delete_dataset(n)

SpecIdx == Init /\ [][NextIdx]_vars

----------------------------------------------------------------------------
(* delete_volume among the calls that decide its outcome: datasets placed   *)
(* and moved, mounts, reservations and the passing of time.                 *)

DelVolsers == {"A01", "B01"}
DelNames   == {"D1"}

NextDel ==
    \/ \E v \in DelVolsers : Alone(MaxDelOps) /\ add_volume(v, TapeVolume)
    \/ \E n \in DelNames, v \in DelVolsers :
          Alone(MaxDelOps) /\ add_dataset(n, [Dataset EXCEPT !.volser = v, !.size_bytes = 1])
    \/ \E n \in DelNames, v \in DelVolsers :
          Alone(MaxDelOps) /\ update_dataset(n, [StoredDataset(n) EXCEPT !.volser = v])
    \/ \E v \in DelVolsers, force \in BOOLEAN : Alone(MaxDelOps) /\ delete_volume(v, force)
    \/ \E v \in DelVolsers : Alone(MaxDelOps) /\ mount_volume(v)
    \/ \E v \in DelVolsers : Alone(MaxDelOps) /\ reserve_volume(v, "U1", 1)
    \/ Tick /\ UNCHANGED thrVars

SpecDel == Init /\ [][NextDel]_vars

----------------------------------------------------------------------------
(* The audit trail of single-item and bulk operations under changing users *)

AuditVolsers == {"A01", "B01"}
AuditNames   == {"D1"}
AuditTags    == {"T1", "T 3"}
AuditUsers   == {"SYSTEM", "U1"}
AuditLists   == {<<"A01">>, <<"A01", "B01">>}

NextAudit ==
    \/ \E v \in AuditVolsers : Alone(MaxAuditOps) /\ add_volume(v, TapeVolume)
    \/ \E v \in AuditVolsers : Alone(MaxAuditOps) /\ delete_volume(v, FALSE)
    \/ \E n \in AuditNames, v \in AuditVolsers :
          Alone(MaxAuditOps) /\ add_dataset(n, [Dataset EXCEPT !.volser = v, !.size_bytes = 1])
    \/ \E n \in AuditNames : Alone(MaxAuditOps) /\ delete_dataset(n)
    \/ \E v \in AuditVolsers, t \in AuditTags : Alone(MaxAuditOps) /\ add_volume_tag(v, t)
    \/ \E v \in AuditVolsers, t \in AuditTags : Alone(MaxAuditOps) /\ remove_volume_tag(v, t)
    \/ \E n \in AuditNames, t \in AuditTags : Alone(MaxAuditOps) /\ add_dataset_tag(n, t)
    \/ \E n \in AuditNames, t \in AuditTags : Alone(MaxAuditOps) /\ remove_dataset_tag(n, t)
    \/ \E l \in AuditLists, t \in AuditTags : Alone(MaxAuditOps) /\ add_tag_to_volumes(l, t)
    \/ \E v \in AuditVolsers : Alone(MaxAuditOps) /\ mount_volume(v)
    \/ \E v \in AuditVolsers : Alone(MaxAuditOps) /\ reserve_volume(v, "U1", 1)
    \/ Alone(MaxAuditOps) /\ allocate_scratch_volume("", "")
    \/ \E u \in AuditUsers : set_current_user(u) /\ UNCHANGED thrVars

SpecAudit == Init /\ [][NextAudit]_vars

----------------------------------------------------------------------------
(* Reservations by two users while the clock advances *)

ResVolsers   == {"A01", "B01"}
ResUsers     == {"U1", "U2"}
ResDurations == {0, 1, 2}
ResExtras    == {1, 2}

NextRes ==
    \/ \E v \in ResVolsers : Alone(MaxResOps) /\ add_volume(v, TapeVolume)
    \/ \E v \in ResVolsers, u \in ResUsers, d \in ResDurations :
          Alone(MaxResOps) /\ reserve_volume(v, u, d)
    \/ \E v \in ResVolsers, u \in ResUsers : Alone(MaxResOps) /\ release_volume(v, u)
    \/ \E v \in ResVolsers, u \in ResUsers, e \in ResExtras :
          Alone(MaxResOps) /\ extend_reservation(v, u, e)
    \/ Alone(MaxResOps) /\ cleanup_expired_reservations
    \/ Tick /\ UNCHANGED thrVars

SpecRes == Init /\ [][NextRes]_vars

----------------------------------------------------------------------------
(* The volume life cycle: datasets come and go, volumes are mounted, taken  *)
(* offline, scratched and handed out                                        *)

LifeVolsers == {"A01", "B01"}
LifeNames   == {"D1", "D2"}
LifeSizes   == {1, 2}

NextLife ==
    \/ \E v \in LifeVolsers : Alone(MaxLifeOps) /\ add_volume(v, TapeVolume)
    \/ \E n \in LifeNames, v \in LifeVolsers, size \in LifeSizes :
          Alone(MaxLifeOps)
          /\ add_dataset(n, [Dataset EXCEPT !.volser = v, !.size_bytes = size])
    \/ \E n \in LifeNames : Alone(MaxLifeOps) /\ delete_dataset(n)
    \/ \E v \in LifeVolsers : Alone(MaxLifeOps) /\ mount_volume(v)
    \/ \E v \in LifeVolsers : Alone(MaxLifeOps) /\ dismount_volume(v)
    \/ \E v \in LifeVolsers : Alone(MaxLifeOps) /\ set_volume_offline(v)
    \/ \E v \in LifeVolsers : Alone(MaxLifeOps) /\ set_volume_online(v)
    \/ \E v \in LifeVolsers : Alone(MaxLifeOps) /\ scratch_volume(v)
    \/ Alone(MaxLifeOps) /\ allocate_scratch_volume("", "")

SpecLife == Init /\ [][NextLife]_vars

----------------------------------------------------------------------------
(* The scratch pool: volumes of two pools and densities, some reserved,     *)
(* some past their expiration date, handed out and scratched again          *)

AllocVolsers   == {"A01", "B01", "a0"}
AllocPools     == {"", "P1"}
AllocDensities == {"", "LTO8"}
\* pool, density and expiration date of the volumes added; 0 is "not set"
AllocProfiles  == {<<"", "LTO3", 0>>, <<"P1", "LTO8", 0>>, <<"P1", "LTO8", 2>>}

NextAlloc ==
    \/ \E v \in AllocVolsers, a \in AllocProfiles :
          Alone(MaxAllocOps)
          /\ add_volume(v, [TapeVolume EXCEPT !.pool = a[1], !.density = a[2],
                                              !.expiration_date = a[3]])
    \/ \E v \in AllocVolsers : Alone(MaxAllocOps) /\ reserve_volume(v, "U1", 1)
    \/ \E v \in AllocVolsers : Alone(MaxAllocOps) /\ scratch_volume(v)
    \/ \E p \in AllocPools, d \in AllocDensities :
          Alone(MaxAllocOps) /\ allocate_scratch_volume(p, d)
    \/ Tick /\ UNCHANGED thrVars

SpecAlloc == Init /\ [][NextAlloc]_vars

----------------------------------------------------------------------------
(* Threads racing for scratch volumes. Every stretch of a call between      *)
(* taking catalog_mutex_ and lock.unlock() is one step; what a call does    *)
(* after lock.unlock() is a later step of its own.                          *)

RaceVolsers == {"A01", "B01"}

\* calls in flight count towards the bound
Started == nops + Cardinality({t \in Threads : pc[t] # "idle"})

Commit ==
    committed' = Catalog(volumes', volume_owner_index', volume_pool_index',
                         volume_tag_index')

\* allocate_scratch_volume from its entry to lock.unlock()
allocate_claim(t, pool, density) ==
    /\ pc[t] = "idle"
    /\ lock_exclusive_ok(catalog_mutex)
    /\ LET volser == allocate_scan(volumes, pool, density, now) IN
       IF volser = ""
       THEN /\ last' = Result("allocate_scratch_volume", "", pool, density, FALSE,
                              "NO_SCRATCH_AVAILABLE", "", 0)
            /\ UNCHANGED <<catVars, auditVars, envVars, nops, thrVars>>
       ELSE /\ volumes' = [volumes EXCEPT ![volser].status = "PRIVATE"]
            /\ pc' = [pc EXCEPT ![t] = "allocate_unlocked"]
            /\ call' = [call EXCEPT ![t] =
                          [NoCall EXCEPT !.op = "allocate_scratch_volume",
                                         !.key = pool, !.arg = density, !.ref = volser]]
            /\ claimed' = claimed \cup {volser}
            /\ UNCHANGED <<idxVars, dsVars, auditVars, envVars, nops, last,
                           catalog_mutex, batch>>
            /\ Commit

\* what reading the key through the structured binding `volser` yields: the key
\* while its map node is alive, anything once the node has been erased ("?"
\* stands for every string that is no volser of the model)
read_volser(ref, dangling) == IF dangling THEN RaceVolsers \cup {"?"} ELSE {ref}

\* allocate_scratch_volume after lock.unlock(): the audit record and the result
\* are built from `volser`, a reference into the map
allocate_return(t) ==
    /\ pc[t] = "allocate_unlocked"
    /\ \E target \in read_volser(call[t].ref, call[t].dangling),
          ret \in read_volser(call[t].ref, call[t].dangling) :
          /\ add_audit_record("ALLOCATE_SCRATCH", target)
          /\ last' = Result("allocate_scratch_volume", "", call[t].key, call[t].arg,
                            TRUE, "", ret, 0)
    /\ nops' = nops + 1
    /\ pc' = [pc EXCEPT ![t] = "idle"]
    /\ call' = [call EXCEPT ![t] = NoCall]
    /\ UNCHANGED <<catVars, envVars, catalog_mutex, committed, claimed, batch>>

\* once `volser` is out of the map, the nodes other calls still refer to are gone
erase_node(volser, erased) ==
    [u \in Threads |-> IF erased /\ call[u].ref = volser
                       THEN [call[u] EXCEPT !.dangling = TRUE] ELSE call[u]]

\* delete_volume by thread t while other calls are in flight
delete_volume_by(t, volser) ==
    /\ pc[t] = "idle"
    /\ lock_exclusive_ok(catalog_mutex)
    /\ delete_volume(volser, FALSE)
    /\ call' = erase_node(volser, last'.ok)
    /\ claimed' = IF last'.ok THEN claimed \ {volser} ELSE claimed
    /\ Commit
    /\ UNCHANGED <<catalog_mutex, pc, batch>>

\* scratch_volume by thread t while other calls are in flight
scratch_volume_by(t, volser) ==
    /\ pc[t] = "idle"
    /\ lock_exclusive_ok(catalog_mutex)
    /\ scratch_volume(volser)
    /\ claimed' = IF last'.ok THEN claimed \ {volser} ELSE claimed
    /\ Commit
    /\ UNCHANGED <<catalog_mutex, pc, call, batch>>

\* add_volume by thread t while other calls are in flight
add_volume_by(t, volser, volume) ==
    /\ pc[t] = "idle"
    /\ lock_exclusive_ok(catalog_mutex)
    /\ add_volume(volser, volume)
    /\ Commit
    /\ UNCHANGED <<catalog_mutex, pc, call, claimed, batch>>

NextRace ==
    \/ \E t \in Threads, v \in RaceVolsers :
          Started < MaxRaceOps /\ add_volume_by(t, v, TapeVolume)
    \/ \E t \in Threads, v \in RaceVolsers :
          Started < MaxRaceOps /\ delete_volume_by(t, v)
    \/ \E t \in Threads, v \in RaceVolsers :
          Started < MaxRaceOps /\ scratch_volume_by(t, v)
    \/ \E t \in Threads : Started < MaxRaceOps /\ allocate_claim(t, "", "")
    \/ \E t \in Threads : allocate_return(t)

SpecRace == Init /\ [][NextRace]_vars

----------------------------------------------------------------------------
(* Writers and readers sharing catalog_mutex_. A writer's body is taken     *)
(* apart at the point between its writes to the volume map and its writes   *)
(* to the indices; a reader's at the point between its index lookup and its *)
(* map lookups.                                                             *)

ConcVolsers == {"A01", "B01"}
ConcAttrs   == {<<"U1", "P1", {"T1"}>>, <<"U2", "P2", {}>>}
ConcLookups == {<<"get_volumes_by_owner", "U1">>, <<"get_volumes_by_pool", "P2">>,
                <<"find_volumes_by_tag", "T1">>}

Enter(t, op, key, volume, next) ==
    /\ pc' = [pc EXCEPT ![t] = next]
    /\ call' = [call EXCEPT ![t] = [NoCall EXCEPT !.op = op, !.key = key,
                                                  !.volume = volume]]

\* an error return of a writer: the unique_lock goes out of scope
writer_fails(t, err) ==
    /\ last' = Result(call[t].op, call[t].key, "", "", FALSE, err, "", 0)
    /\ catalog_mutex' = [catalog_mutex EXCEPT !.writer = ""]
    /\ pc' = [pc EXCEPT ![t] = "idle"]
    /\ call' = [call EXCEPT ![t] = NoCall]
    /\ UNCHANGED <<catVars, auditVars, envVars, nops, committed, claimed, batch>>

\* add_volume: validate_volser, then std::unique_lock
add_volume_lock(t, volser, volume) ==
    /\ pc[t] = "idle"
    /\ IF ~validate_volser(volser)
       THEN /\ last' = Result("add_volume", volser, "", "", FALSE, "INVALID_VOLSER", "", 0)
            /\ UNCHANGED <<catVars, auditVars, envVars, nops, thrVars>>
       ELSE /\ lock_exclusive_ok(catalog_mutex)
            /\ catalog_mutex' = [catalog_mutex EXCEPT !.writer = t]
            /\ Enter(t, "add_volume", volser, volume, "add_volume_store")
            /\ UNCHANGED <<catVars, auditVars, envVars, nops, last, committed, claimed, batch>>

\* add_volume: the checks and volumes_[vol.volser] = vol
add_volume_store(t) ==
    /\ pc[t] = "add_volume_store"
    /\ IF Cardinality(DOMAIN volumes) >= max_volumes
         THEN writer_fails(t, "VOLUME_LIMIT_REACHED")
       ELSE IF call[t].key \in DOMAIN volumes
         THEN writer_fails(t, "VOLUME_ALREADY_EXISTS")
       ELSE /\ volumes' = Put(volumes, call[t].key,
                              add_volume_defaults(call[t].volume, now))
            /\ pc' = [pc EXCEPT ![t] = "add_volume_index"]
            /\ UNCHANGED <<idxVars, dsVars, auditVars, envVars, nops, last,
                           catalog_mutex, call, committed, claimed, batch>>

\* add_volume: the three index adds
add_volume_index(t) ==
    /\ pc[t] = "add_volume_index"
    /\ LET volser == call[t].key
           vol == volumes[volser]
       IN  /\ volume_owner_index' = IndexAdd(volume_owner_index, vol.owner, volser)
           /\ volume_pool_index' = IndexAdd(volume_pool_index, vol.pool, volser)
           /\ volume_tag_index' = IndexAddAll(volume_tag_index, vol.tags, volser)
    /\ pc' = [pc EXCEPT ![t] = "unlock"]
    /\ UNCHANGED <<volumes, dsVars, auditVars, envVars, nops, last, catalog_mutex,
                   call, committed, claimed, batch>>

\* update_volume: std::unique_lock
update_volume_lock(t, volser, volume) ==
    /\ pc[t] = "idle"
    /\ lock_exclusive_ok(catalog_mutex)
    /\ catalog_mutex' = [catalog_mutex EXCEPT !.writer = t]
    /\ Enter(t, "update_volume", volser, volume, "update_volume_index")
    /\ UNCHANGED <<catVars, auditVars, envVars, nops, last, committed, claimed, batch>>

\* update_volume: the lookup and the index updates
update_volume_index(t) ==
    /\ pc[t] = "update_volume_index"
    /\ IF call[t].key \notin DOMAIN volumes
       THEN writer_fails(t, "VOLUME_NOT_FOUND")
       ELSE LET volser == call[t].key
                volume == call[t].volume
                old == volumes[volser]
            IN
            /\ volume_owner_index' =
                 IF old.owner # volume.owner
                 THEN IndexUpdate(volume_owner_index, old.owner, volume.owner, volser)
                 ELSE volume_owner_index
            /\ volume_pool_index' =
                 IF old.pool # volume.pool
                 THEN IndexUpdate(volume_pool_index, old.pool, volume.pool, volser)
                 ELSE volume_pool_index
            /\ volume_tag_index' =
                 IndexRetag(volume_tag_index, old.tags, volume.tags, volser)
            /\ pc' = [pc EXCEPT ![t] = "update_volume_store"]
            /\ UNCHANGED <<volumes, dsVars, auditVars, envVars, nops, last,
                           catalog_mutex, call, committed, claimed, batch>>

\* update_volume: it->second = volume
update_volume_store(t) ==
    /\ pc[t] = "update_volume_store"
    /\ volumes' = [volumes EXCEPT ![call[t].key] = call[t].volume]
    /\ pc' = [pc EXCEPT ![t] = "unlock"]
    /\ UNCHANGED <<idxVars, dsVars, auditVars, envVars, nops, last, catalog_mutex,
                   call, committed, claimed, batch>>

\* lock.unlock()
writer_unlock(t) ==
    /\ pc[t] = "unlock"
    /\ catalog_mutex' = [catalog_mutex EXCEPT !.writer = ""]
    /\ pc' = [pc EXCEPT ![t] = "audit"]
    /\ UNCHANGED <<catVars, auditVars, envVars, nops, last, call, claimed, batch>>
    /\ Commit

\* add_audit_record and return OperationResult::ok()
writer_returns(t) ==
    /\ pc[t] = "audit"
    /\ add_audit_record(IF call[t].op = "add_volume" THEN "ADD_VOLUME"
                        ELSE "UPDATE_VOLUME", call[t].key)
    /\ last' = Result(call[t].op, call[t].key, "", "", TRUE, "", "", 0)
    /\ nops' = nops + 1
    /\ pc' = [pc EXCEPT ![t] = "idle"]
    /\ call' = [call EXCEPT ![t] = NoCall]
    /\ UNCHANGED <<catVars, envVars, catalog_mutex, committed, claimed, batch>>

\* get_volumes_by_owner / get_volumes_by_pool / find_volumes_by_tag:
\* std::shared_lock
lookup_lock(t, op, value) ==
    /\ pc[t] = "idle"
    /\ lock_shared_ok(catalog_mutex)
    /\ catalog_mutex' = [catalog_mutex EXCEPT !.readers = @ \cup {t}]
    /\ Enter(t, op, value, TapeVolume, "lookup_index")
    /\ UNCHANGED <<catVars, auditVars, envVars, nops, last, committed, claimed, batch>>

\* the index a lookup reads
index_of(op) ==
    CASE op = "get_volumes_by_owner" -> volume_owner_index
      [] op = "get_volumes_by_pool" -> volume_pool_index
      [] OTHER -> volume_tag_index

\* auto volsers = index.find(value)
lookup_index(t) ==
    /\ pc[t] = "lookup_index"
    /\ call' = [call EXCEPT ![t].keys = IndexFind(index_of(call[t].op), call[t].key)]
    /\ pc' = [pc EXCEPT ![t] = "lookup_records"]
    /\ UNCHANGED <<catVars, auditVars, envVars, nops, last, catalog_mutex,
                   committed, claimed, batch>>

\* the loop over volsers: volumes_.find(volser) and result.push_back
lookup_records(t) ==
    /\ pc[t] = "lookup_records"
    /\ call' = [call EXCEPT ![t].result =
                  {[volser |-> k, volume |-> volumes[k]] :
                     k \in call[t].keys \cap DOMAIN volumes}]
    /\ pc' = [pc EXCEPT ![t] = "lookup_return"]
    /\ UNCHANGED <<catVars, auditVars, envVars, nops, last, catalog_mutex,
                   committed, claimed, batch>>

\* return result: the shared_lock goes out of scope
lookup_return(t) ==
    /\ pc[t] = "lookup_return"
    /\ catalog_mutex' = [catalog_mutex EXCEPT !.readers = @ \ {t}]
    /\ last' = Result(call[t].op, call[t].key, "", "", TRUE, "", "",
                      Cardinality(call[t].result))
    /\ pc' = [pc EXCEPT ![t] = "idle"]
    /\ call' = [call EXCEPT ![t] = NoCall]
    /\ UNCHANGED <<catVars, auditVars, envVars, nops, committed, claimed, batch>>

NextConc ==
    \/ \E t \in Threads, v \in ConcVolsers, a \in ConcAttrs :
          Started < MaxConcOps /\ add_volume_lock(t, v, WithVolAttrs(TapeVolume, a))
    \/ \E t \in Threads : add_volume_store(t)
    \/ \E t \in Threads : add_volume_index(t)
    \/ \E t \in Threads, v \in ConcVolsers, a \in ConcAttrs :
          Started < MaxConcOps
          /\ update_volume_lock(t, v, WithVolAttrs(StoredVolume(v), a))
    \/ \E t \in Threads : update_volume_index(t)
    \/ \E t \in Threads : update_volume_store(t)
    \/ \E t \in Threads : writer_unlock(t)
    \/ \E t \in Threads : writer_returns(t)
    \/ \E t \in Threads, l \in ConcLookups : lookup_lock(t, l[1], l[2])
    \/ \E t \in Threads : lookup_index(t)
    \/ \E t \in Threads : lookup_records(t)
    \/ \E t \in Threads : lookup_return(t)

SpecConc == Init /\ [][NextConc]_vars

----------------------------------------------------------------------------
(* What the primary maps say an index should hold *)

VolumesWithOwner(o) == {k \in DOMAIN volumes : volumes[k].owner = o}
VolumesWithPool(p)  == {k \in DOMAIN volumes : volumes[k].pool = p}
VolumesWithTag(t)   == {k \in DOMAIN volumes : t \in volumes[k].tags}
DatasetsWithOwner(o) == {n \in DOMAIN datasets : datasets[n].owner = o}
DatasetsWithTag(t)   == {n \in DOMAIN datasets : t \in datasets[n].tags}

IndexExactAt(x) ==
    /\ get_volumes_by_owner(x) = VolumesWithOwner(x)
    /\ get_volumes_by_pool(x) = VolumesWithPool(x)
    /\ find_volumes_by_tag(x) = VolumesWithTag(x)
    /\ get_datasets_by_owner(x) = DatasetsWithOwner(x)
    /\ find_datasets_by_tag(x) = DatasetsWithTag(x)

\* C1 as stated: after every add/update/delete call, for EVERY attribute value
\* (the empty string included) each index lookup returns exactly the stored
\* records that carry the value.
C1_IndexExactEveryValue == \A x \in IdxValues : IndexExactAt(x)

\* C1 (amended): the same for every NON-EMPTY attribute value; a record whose
\* owner or pool is the empty string is stored but never indexed.
C1_IndexExactNonEmpty == \A x \in IdxValues \ {""} : IndexExactAt(x)

\* two volumes share an owner, and an update_volume that changed an indexed
\* attribute has just succeeded
C1_Witness ==
    /\ last.op = "update_volume" /\ last.ok
    /\ \E o \in IdxValues \ {""} : Cardinality(get_volumes_by_owner(o)) = 2
    /\ \E t \in IdxValues : find_datasets_by_tag(t) # {}


----------------------------------------------------------------------------
(* Volume / dataset cross references *)

NoDuplicates(list) == \A i, j \in 1..Len(list) : list[i] = list[j] => i = j

\* C2 as stated: every stored volume's dataset list holds exactly the stored
\* datasets whose volser names the volume, each once, and every stored dataset
\* is in the list of the volume its volser names.
C2_ListsMatchVolsers ==
    /\ \A v \in DOMAIN volumes :
          /\ Range(volumes[v].datasets) = list_datasets_on_volume(v)
          /\ NoDuplicates(volumes[v].datasets)
    /\ \A n \in DOMAIN datasets :
          /\ datasets[n].volser \in DOMAIN volumes
          /\ n \in Range(volumes[datasets[n].volser].datasets)

\* this step is a call: it returned a different result or changed the catalog
Called == last' # last \/ nops' # nops

InIndex(idx, key) == \E x \in DOMAIN idx : key \in idx[x]

\* C9 as stated: delete_volume(V, force) succeeds only if V is stored, not
\* MOUNTED, not reserved and (has no datasets or force); on success V has left
\* the volume map and its three indices and, with force, every dataset that was
\* on V has left the dataset map and its indices; a failed call changes nothing.
\* The datasets on V are the stored datasets whose volser is V.
C9_DeleteVolumeStep ==
    LET v == last'.key IN
    (Called /\ last'.op = "delete_volume") =>
      IF last'.ok
      THEN /\ v \in DOMAIN volumes
           /\ volumes[v].status # "MOUNTED"
           /\ ~is_reserved(volumes[v], now)
           /\ list_datasets_on_volume(v) = {} \/ last'.arg = "force"
           /\ v \notin DOMAIN volumes'
           /\ ~InIndex(volume_owner_index', v)
           /\ ~InIndex(volume_pool_index', v)
           /\ ~InIndex(volume_tag_index', v)
           /\ last'.arg = "force" =>
                \A n \in list_datasets_on_volume(v) :
                   /\ n \notin DOMAIN datasets'
                   /\ ~InIndex(dataset_owner_index', n)
                   /\ ~InIndex(dataset_tag_index', n)
      ELSE UNCHANGED <<catVars, auditVars>>

\* C9: every delete_volume call obeys the refusal rules, or removes the volume,
\* its listed datasets and their index entries
C9_DeleteVolume == [][C9_DeleteVolumeStep]_vars

\* the operation name an audit record carries for each call
AuditName(op) ==
    CASE op = "add_volume" -> "ADD_VOLUME"
      [] op = "delete_volume" -> "DELETE_VOLUME"
      [] op = "update_volume" -> "UPDATE_VOLUME"
      [] op = "add_dataset" -> "ADD_DATASET"
      [] op = "delete_dataset" -> "DELETE_DATASET"
      [] op = "update_dataset" -> "UPDATE_DATASET"
      [] op = "add_volume_tag" -> "ADD_TAG"
      [] op = "remove_volume_tag" -> "REMOVE_TAG"
      [] op = "add_dataset_tag" -> "ADD_TAG"
      [] op = "remove_dataset_tag" -> "REMOVE_TAG"
      [] op = "add_tag_to_volumes" -> "BULK_ADD_TAG"
      [] op = "mount_volume" -> "MOUNT_VOLUME"
      [] op = "reserve_volume" -> "RESERVE_VOLUME"
      [] op = "allocate_scratch_volume" -> "ALLOCATE_SCRATCH"
      [] OTHER -> ""

\* the key a call acted on: the volser claimed for an allocation, else the
\* call's first argument
TargetOf(result) ==
    IF result.op = "allocate_scratch_volume" THEN result.ret ELSE result.key

\* C10 as stated: every successful operation that changes a stored volume or
\* dataset appends exactly one audit record, and the record carries the current
\* user, the target key and the operation name.
C10_OneRecordStep ==
    (nops' = nops + 1 /\ (volumes' # volumes \/ datasets' # datasets)) =>
       /\ pruned_count' = pruned_count
       /\ Len(records') = Len(records) + 1
       /\ SubSeq(records', 1, Len(records)) = records
       /\ records'[Len(records')] =
             AuditRecord(AuditName(last'.op), current_user, TargetOf(last'))

\* C10: every successful mutating call appends exactly one audit record naming
\* the operation, the current user and the target
C10_OneAuditRecord == [][C10_OneRecordStep]_vars

----------------------------------------------------------------------------
(* Reservations *)

\* user u holds volume v at time t
Holds(vols, v, u, t) ==
    v \in DOMAIN vols /\ vols[v].reserved_by = u /\ vols[v].reservation_expires > t

ReservationCalls == {"reserve_volume", "release_volume", "extend_reservation"}

\* C5: while A holds V (reserved and not yet expired), reserve_volume and
\* release_volume of V by any other user B fail and leave the reservation as it
\* is, and nothing but A's own calls or the passing of time ends A's hold; a
\* volume whose reservation was released or has run out is not held, and then
\* reserve_volume by any user succeeds and makes that user the only holder.
C5_ReservationStep ==
    \A v \in DOMAIN volumes :
       LET vol == volumes[v]
           a   == vol.reserved_by
           by_call == Called /\ last'.key = v /\ last'.op \in ReservationCalls
       IN
       /\ (Holds(volumes, v, a, now) /\ by_call /\ last'.arg # a) =>
             /\ ~last'.ok
             /\ volumes' = volumes
       /\ (Holds(volumes, v, a, now) /\ ~(by_call /\ last'.arg = a)) =>
             /\ v \in DOMAIN volumes'
             /\ volumes'[v].reserved_by = a
             /\ volumes'[v].reservation_expires = vol.reservation_expires
       /\ (by_call /\ last'.op = "release_volume" /\ last'.ok) =>
             /\ Holds(volumes, v, last'.arg, now)
             /\ \A u \in ResUsers : ~Holds(volumes', v, u, now')
       /\ (~Holds(volumes, v, a, now) /\ by_call /\ last'.op = "reserve_volume") =>
             /\ last'.ok
             /\ volumes'[v].reserved_by = last'.arg
             /\ \A u \in ResUsers \ {last'.arg} : ~Holds(volumes', v, u, now')

----------------------------------------------------------------------------
(* Space accounting and the status of an empty volume *)

RECURSIVE SumSizes(_)
SumSizes(names) ==
    IF names = {} THEN 0
    ELSE LET n == CHOOSE x \in names : TRUE
         IN  datasets[n].size_bytes + SumSizes(names \ {n})

PrivateAndEmpty(vol) == vol.status = "PRIVATE" /\ vol.datasets = <<>>

C4_PrivateEmptyStep ==
    \A v \in DOMAIN volumes' :
       PrivateAndEmpty(volumes'[v]) =>
          \/ v \in DOMAIN volumes /\ PrivateAndEmpty(volumes[v])
          \/ last'.op = "allocate_scratch_volume" /\ last'.ok /\ last'.ret = v

----------------------------------------------------------------------------
(* Scratch allocation *)

\* the volumes a call allocate_scratch_volume(pool, density) may claim
Eligible(pool, density) ==
    {v \in DOMAIN volumes :
        /\ volumes[v].status = "SCRATCH"
        /\ ~(volumes[v].reserved_by # "" /\ volumes[v].reservation_expires > now)
        /\ ~(volumes[v].expiration_date < now)
        /\ pool = "" \/ volumes[v].pool = pool
        /\ density = "" \/ volumes[v].density = density}

\* C6: allocate_scratch_volume(pool, density) returns the lexicographically
\* lowest eligible volser and makes that volume PRIVATE; it fails with
\* NO_SCRATCH_AVAILABLE, changing no volume, exactly when none is eligible.
C6_AllocateStep ==
    (Called /\ last'.op = "allocate_scratch_volume") =>
       LET elig == Eligible(last'.arg, last'.arg2) IN
       IF elig = {}
       THEN /\ ~last'.ok
            /\ last'.err = "NO_SCRATCH_AVAILABLE"
            /\ volumes' = volumes
       ELSE /\ last'.ok
            /\ last'.ret \in elig
            /\ \A w \in elig : ~LexLess(Bytes(w), Bytes(last'.ret))
            /\ volumes' = [volumes EXCEPT ![last'.ret].status = "PRIVATE"]

\* C6: every allocate_scratch_volume call returns the lowest eligible volser and
\* makes that volume PRIVATE, or fails when none is eligible
C6_AllocateLowest == [][C6_AllocateStep]_vars

\* an allocation filtered by pool has just taken the lower of two volumes of
\* that pool, both eligible
C6_Witness ==
    /\ last.op = "allocate_scratch_volume" /\ last.ok /\ last.arg = "P1"
    /\ last.ret \in DOMAIN volumes
    /\ volumes[last.ret].status = "PRIVATE"
    /\ \E w \in DOMAIN volumes :
          /\ LexLess(Bytes(last.ret), Bytes(w))
          /\ volumes[w].status = "SCRATCH" /\ volumes[w].pool = "P1"
          /\ volumes[w].density = volumes[last.ret].density
          /\ volumes[w].reserved_by = ""
          /\ volumes[w].expiration_date >= now

----------------------------------------------------------------------------
(* Concurrent allocation *)

\* C7 as stated: under any interleaving, every successful allocate_scratch_volume
\* claims a volume that is SCRATCH, unreserved and unexpired and that no earlier
\* call holds (unless it was scratched or deleted since), and returns the volser
\* of the volume it claimed: no two calls return the same volser for one claim.
C7_AllocationStep ==
    \A t \in Threads :
       /\ (pc[t] = "idle" /\ pc'[t] = "allocate_unlocked") =>
             /\ call'[t].ref \notin claimed
             /\ is_available_for_scratch(volumes[call'[t].ref], now)
       /\ (pc[t] = "allocate_unlocked" /\ pc'[t] = "idle") =>
             /\ last'.ok
             /\ last'.ret = call[t].ref

\* C7: every allocate_scratch_volume return reports the volume that the call
\* itself claimed
C7_AllocationAtomic == [][C7_AllocationStep]_vars

----------------------------------------------------------------------------
(* Readers beside writers *)

\* what a lookup returns in catalog state cat: the records that carry the value
LookupIn(cat, op, value) ==
    {[volser |-> k, volume |-> cat.volumes[k]] :
       k \in {x \in DOMAIN cat.volumes :
                CASE op = "get_volumes_by_owner" -> cat.volumes[x].owner = value
                  [] op = "get_volumes_by_pool" -> cat.volumes[x].pool = value
                  [] OTHER -> value \in cat.volumes[x].tags}}

\* C8: under any interleaving of writers and readers, what a lookup by owner,
\* pool or tag returns is what it returns in the catalog as the last completed
\* write left it: exactly the records that carry the value, none of them with a
\* stale index entry or a stale record.
C8_LookupsSeeCommitted ==
    \A t \in Threads :
       pc[t] = "lookup_return" =>
          call[t].result = LookupIn(committed, call[t].op, call[t].key)

\* a lookup has its result while another thread, having changed the owner of a
\* record, waits for the lock to be free or has just given it back
C8_Witness ==
    \E t, w \in Threads :
       /\ pc[t] = "lookup_return" /\ call[t].result # {}
       /\ pc[w] = "audit" /\ call[w].op = "update_volume"
       /\ \E i \in 1..Len(records) : records[i].operation = "ADD_VOLUME"

----------------------------------------------------------------------------
(* AuditLog on its own: a log constructed with a small capacity and filled   *)
(* by AuditLog::add.  The n-th record added carries n as its target.        *)

MaxCapacity == 7  \* largest max_records an AuditLog is constructed with
MaxPruneOps == 9  \* calls of AuditLog::add per behaviour of SpecPrune

PruneOperations == {"ADD_VOLUME", "ADD_DATASET"}

\* AuditLog::AuditLog(max_records) inside an otherwise fresh system
InitPrune ==
    /\ volumes = [x \in {} |-> TapeVolume]
    /\ datasets = [x \in {} |-> Dataset]
    /\ volume_owner_index = EmptyIndex
    /\ volume_pool_index = EmptyIndex
    /\ volume_tag_index = EmptyIndex
    /\ dataset_owner_index = EmptyIndex
    /\ dataset_tag_index = EmptyIndex
    /\ records = <<>>
    /\ max_records \in 0..MaxCapacity
    /\ pruned_count = 0
    /\ now = 1
    /\ current_user = "SYSTEM"
    /\ max_volumes = DEFAULT_MAX_VOLUMES
    /\ max_datasets = DEFAULT_MAX_DATASETS
    /\ snapshots = <<>>
    /\ nops = 0
    /\ last = Result("construct", "", "", "", TRUE, "", "", 0)
    /\ catalog_mutex = Unlocked
    /\ pc = [t \in Threads |-> "idle"]
    /\ call = [t \in Threads |-> NoCall]
    /\ committed = Catalog(volumes, volume_owner_index, volume_pool_index,
                           volume_tag_index)
    /\ claimed = {}
    /\ batch = NoBatch

\* AuditLog::add(record)
add(operation) ==
    LET r == AuditLog_add(records, max_records, pruned_count,
                          AuditRecord(operation, current_user, nops + 1)) IN
    /\ Alone(MaxPruneOps)
    /\ records' = r.records
    /\ pruned_count' = r.pruned_count
    /\ nops' = nops + 1
    /\ last' = Result("add", operation, "", "", TRUE, "", "", Len(r.records))
    /\ UNCHANGED <<catVars, max_records, envVars>>

NextPrune == \E operation \in PruneOperations : add(operation)

SpecPrune == InitPrune /\ [][NextPrune]_vars

\* the log holds the most recently added records, oldest first
HoldsMostRecent ==
    \A i \in 1..Len(records) : records[i].target = nops - Len(records) + i

\* C11: up to max_records additions prune nothing; the addition number
\* max_records + 1 leaves max_records - max_records/5 records, the most recent
\* ones, and pruned_count at max_records/5
C11_PruneOnOverflow ==
    /\ nops <= max_records =>
          Len(records) = nops /\ pruned_count = 0 /\ HoldsMostRecent
    /\ nops = max_records + 1 =>
          /\ Len(records) = max_records - max_records \div 5
          /\ pruned_count = max_records \div 5
          /\ HoldsMostRecent

----------------------------------------------------------------------------
(* Batch calls.  A batch is a loop over its items; every pass calls the     *)
(* single-item operation, which runs from entry to return in one step.  A   *)
(* sequential batch has one loop, run by the caller; a parallel batch has   *)
(* one loop per worker thread, each over its own shard [start_idx, end_idx).*)
(* batch.calls lists the indices passed to the single-item operation in the *)
(* order of the calls, batch.outcomes what each of those calls returned,    *)
(* and batch.start the volume map at the entry of the batch.                *)

MAX_PARALLEL_OPERATIONS == 16

Min(a, b) == IF a < b THEN a ELSE b

SequentialBatches ==
    {"add_volumes_batch", "delete_volumes_batch", "add_datasets_batch",
     "delete_datasets_batch"}
ParallelBatches ==
    {"parallel_add_volumes", "parallel_delete_volumes", "parallel_update_volumes"}

\* the records a batch of the model passes in: volumes[i] and datasets[i] differ
\* in their key only
BatchVolume == [TapeVolume EXCEPT !.owner = "U1"]
BatchDataset == [Dataset EXCEPT !.volser = "A01", !.size_bytes = 1]
BatchUpdate(volser) == [StoredVolume(volser) EXCEPT !.owner = "U2"]

\* the single-item operation a batch calls for one item
batch_item(op, key, force) ==
    \/ /\ op \in {"add_volumes_batch", "parallel_add_volumes"}
       /\ add_volume(key, BatchVolume)
    \/ /\ op \in {"delete_volumes_batch", "parallel_delete_volumes"}
       /\ delete_volume(key, force)
    \/ /\ op = "parallel_update_volumes"
       /\ update_volume(key, BatchUpdate(key))
    \/ /\ op = "add_datasets_batch"
       /\ add_dataset(key, BatchDataset)
    \/ /\ op = "delete_datasets_batch"
       /\ delete_dataset(key)

BatchIdle == batch.phase \in {"idle", "returned"}

\* the single calls of a behaviour build the catalog its batches start from
NoBatchYet == batch.phase = "idle"

Entered(op, items, force, requested) ==
    [NoBatch EXCEPT !.op = op, !.items = items, !.force = force,
                    !.requested = requested, !.total = Len(items),
                    !.start = volumes]

\* the entry of a sequential batch: result.total is set, the loop starts
sequential_batch(op, items, force) ==
    /\ BatchIdle
    /\ batch' = [Entered(op, items, force, 1) EXCEPT
                   !.phase = "running",
                   !.workers = <<[start_idx |-> 0, end_idx |-> Len(items), i |-> 0]>>]
    /\ UNCHANGED <<catVars, auditVars, envVars, nops, last, catalog_mutex, pc,
                   call, committed, claimed>>

\* a faulty split that gives the last shard chunk_size items like the others;
\* C12 does not survive it
Shard_NoRemainder(t, thread_count, chunk_size, size) ==
    [start_idx |-> t * chunk_size, end_idx |-> (t + 1) * chunk_size,
     i |-> t * chunk_size]

\* shard t of thread_count shards of chunk_size items, the last one running to
\* the end of the input
Shard(t, thread_count, chunk_size, size) ==
    [start_idx |-> t * chunk_size,
     end_idx |-> IF t = thread_count - 1 THEN size ELSE (t + 1) * chunk_size,
     i |-> t * chunk_size]

\* the entry of a parallel batch up to the start of its workers.  An empty
\* input returns at once.  With thread_count = 0 the division size / thread_count
\* is undefined: the process traps, or the quotient is some number and the loop
\* over the threads runs zero times
parallel_batch(op, items, force, requested) ==
    /\ BatchIdle
    /\ LET size == Len(items)
           thread_count == Min(Min(requested, size), MAX_PARALLEL_OPERATIONS)
           entered == Entered(op, items, force, requested)
       IN
       IF size = 0
       THEN batch' = [entered EXCEPT !.phase = "returned"]
       ELSE IF thread_count = 0
       THEN \/ batch' = [entered EXCEPT !.phase = "trapped"]
            \/ batch' = [entered EXCEPT !.phase = "running"]
       ELSE batch' = [entered EXCEPT
                        !.phase = "running",
                        !.workers = [w \in 1..thread_count |->
                                       Shard(w - 1, thread_count,
                                             size \div thread_count, size)]]
    /\ UNCHANGED <<catVars, auditVars, envVars, nops, last, catalog_mutex, pc,
                   call, committed, claimed>>

\* a faulty pass that gives up its shard at the first failure; C14 does not
\* survive it
batch_pass_StopsAtFailure(w) ==
    /\ batch.phase = "running"
    /\ w \in DOMAIN batch.workers
    /\ batch.workers[w].i < batch.workers[w].end_idx
    /\ LET i == batch.workers[w].i
           key == batch.items[i + 1]
       IN
       /\ batch_item(batch.op, key, batch.force)
       /\ batch' = [batch EXCEPT
                      !.workers[w].i = IF last'.ok THEN i + 1
                                       ELSE batch.workers[w].end_idx,
                      !.succeeded = IF last'.ok THEN @ + 1 ELSE @,
                      !.failed = IF last'.ok THEN @ ELSE @ + 1,
                      !.failures = IF last'.ok THEN @
                                   ELSE Append(@, <<key, last'.err>>),
                      !.calls = Append(@, i),
                      !.outcomes = Append(@, last'.err)]
    /\ UNCHANGED <<catalog_mutex, pc, call, committed, claimed>>

\* one pass of the loop of worker w: the single-item call and the counting of
\* its result
batch_pass(w) ==
    /\ batch.phase = "running"
    /\ w \in DOMAIN batch.workers
    /\ batch.workers[w].i < batch.workers[w].end_idx
    /\ LET i == batch.workers[w].i
           key == batch.items[i + 1]
       IN
       /\ batch_item(batch.op, key, batch.force)
       /\ batch' = [batch EXCEPT
                      !.workers[w].i = i + 1,
                      !.succeeded = IF last'.ok THEN @ + 1 ELSE @,
                      !.failed = IF last'.ok THEN @ ELSE @ + 1,
                      !.failures = IF last'.ok THEN @
                                   ELSE Append(@, <<key, last'.err>>),
                      !.calls = Append(@, i),
                      !.outcomes = Append(@, last'.err)]
    /\ UNCHANGED <<catalog_mutex, pc, call, committed, claimed>>

\* every loop has ended (every thread is joined): the batch returns its result
batch_return ==
    /\ batch.phase = "running"
    /\ \A w \in DOMAIN batch.workers : batch.workers[w].i = batch.workers[w].end_idx
    /\ batch' = [batch EXCEPT !.phase = "returned"]
    /\ UNCHANGED <<catVars, auditVars, envVars, nops, last, catalog_mutex, pc,
                   call, committed, claimed>>

\* Configuration::set_int("General", "max_volumes", value)
set_max_volumes(value) ==
    /\ max_volumes' = value
    /\ UNCHANGED <<catVars, auditVars, now, current_user, max_datasets, snapshots,
                   nops, last>>

----------------------------------------------------------------------------
(* Sequential batches over a catalog built by single calls.                 *)

MaxBatchOps == 3  \* state-changing calls before the last batch of SpecBatch starts

BatchVolsers == {"A01", "B01", "VOL-01"}
BatchNames == {"D1", "D 4"}

\* every list of at most two keys, and one list that names a key twice around
\* another
ListsOver(keys) ==
    {<<>>} \cup {<<k>> : k \in keys} \cup {<<k, l>> : k \in keys, l \in keys}
BatchVolserLists == ListsOver(BatchVolsers) \cup {<<"A01", "B01", "A01">>}
BatchNameLists == ListsOver(BatchNames) \cup {<<"D1", "D 4", "D1">>}

NextBatch ==
    \/ \E v \in BatchVolsers :
          NoBatchYet /\ Alone(MaxBatchOps) /\ add_volume(v, TapeVolume)
    \/ \E n \in BatchNames :
          NoBatchYet /\ Alone(MaxBatchOps) /\ add_dataset(n, BatchDataset)
    \/ \E v \in BatchVolsers : NoBatchYet /\ Alone(MaxBatchOps) /\ mount_volume(v)
    \/ \E items \in BatchVolserLists :
          nops < MaxBatchOps /\ sequential_batch("add_volumes_batch", items, FALSE)
    \/ \E items \in BatchVolserLists, force \in BOOLEAN :
          nops < MaxBatchOps /\ sequential_batch("delete_volumes_batch", items, force)
    \/ \E items \in BatchNameLists :
          nops < MaxBatchOps /\ sequential_batch("add_datasets_batch", items, FALSE)
    \/ \E items \in BatchNameLists :
          nops < MaxBatchOps /\ sequential_batch("delete_datasets_batch", items, FALSE)
    \/ batch_pass(1)
    \/ batch_return

SpecBatch == Init /\ [][NextBatch]_vars

----------------------------------------------------------------------------
(* Claims about the batches *)

\* the single-item operation of a batch
ItemOperation(op) ==
    CASE op \in {"add_volumes_batch", "parallel_add_volumes"} -> "add_volume"
      [] op \in {"delete_volumes_batch", "parallel_delete_volumes"} -> "delete_volume"
      [] op = "parallel_update_volumes" -> "update_volume"
      [] op = "add_datasets_batch" -> "add_dataset"
      [] op = "delete_datasets_batch" -> "delete_dataset"

\* (key, message) of the failed calls among the first n, in the order of the calls
RECURSIVE FailedCalls(_, _)
FailedCalls(b, n) ==
    IF n = 0 THEN <<>>
    ELSE IF b.outcomes[n] = "" THEN FailedCalls(b, n - 1)
    ELSE Append(FailedCalls(b, n - 1), <<b.items[b.calls[n] + 1], b.outcomes[n]>>)

\* the keys of the items whose call succeeded
SucceededKeys(b) ==
    {b.items[b.calls[j] + 1] : j \in {k \in 1..Len(b.calls) : b.outcomes[k] = ""}}

C14_BatchStep ==
    batch'.op \in SequentialBatches =>
       /\ batch.phase = "running" /\ batch'.calls # batch.calls =>
             LET i == Len(batch.calls) IN
             /\ batch'.calls = Append(batch.calls, i)
             /\ last'.op = ItemOperation(batch.op)
             /\ last'.key = batch.items[i + 1]
             /\ ~last'.ok => catVars' = catVars
       /\ batch.phase = "running" /\ batch'.calls = batch.calls => catVars' = catVars
       /\ batch.phase = "running" /\ batch'.phase = "returned" =>
             LET n == Len(batch.items) IN
             /\ batch'.calls = [i \in 1..n |-> i - 1]
             /\ batch'.total = n
             /\ batch'.succeeded + batch'.failed = n
             /\ batch'.succeeded = Cardinality({k \in 1..n : batch.outcomes[k] = ""})
             /\ batch'.failures = FailedCalls(batch, n)
             /\ batch.op = "add_volumes_batch" =>
                   DOMAIN volumes' = DOMAIN batch.start \cup SucceededKeys(batch)
             /\ batch.op = "delete_volumes_batch" =>
                   DOMAIN volumes' = DOMAIN batch.start \ SucceededKeys(batch)

\* C14: a sequential batch calls the single-item operation for every item in
\* input order, a failed call changes nothing and does not end the loop, and
\* the result counts the items and lists the failures in input order
C14_SequentialBatch == [][C14_BatchStep]_vars

\* a batch has returned in which a call succeeded after an earlier one failed
C14_Witness ==
    /\ batch.op \in SequentialBatches /\ batch.phase = "returned"
    /\ \E j, k \in 1..Len(batch.outcomes) :
          j < k /\ batch.outcomes[j] # "" /\ batch.outcomes[k] = ""
    /\ batch.failed >= 1 /\ batch.succeeded >= 1

----------------------------------------------------------------------------
(* Parallel batches over a catalog built by single calls, with the volume   *)
(* limit at its default or set low.                                         *)

MaxParOps == 3     \* state-changing calls before the last batch of SpecPar starts
MaxRequested == 3  \* largest thread_count passed to a parallel batch

ParVolsers == {"A01", "B01", "C01"}
ParLimits == {1, 3}
ParItems ==
    {<<>>, <<"A01">>, <<"A01", "B01">>, <<"B01", "A01", "C01">>,
     <<"A01", "VOL-01", "C01">>}

\* what add_volumes_batch leaves and counts when it runs alone from the volume
\* map vols at time t
RECURSIVE add_volumes_batch_result(_, _, _)
add_volumes_batch_result(vols, items, t) ==
    IF items = <<>> THEN [volumes |-> vols, succeeded |-> 0, failed |-> 0]
    ELSE LET volser == Head(items)
             ok == /\ validate_volser(volser)
                   /\ Cardinality(DOMAIN vols) < max_volumes
                   /\ volser \notin DOMAIN vols
             rest == add_volumes_batch_result(
                        IF ok THEN Put(vols, volser, add_volume_defaults(BatchVolume, t))
                        ELSE vols,
                        Tail(items), t)
         IN [rest EXCEPT !.succeeded = IF ok THEN @ + 1 ELSE @,
                         !.failed = IF ok THEN @ ELSE @ + 1]

NextPar ==
    \/ \E v \in ParVolsers :
          NoBatchYet /\ Alone(MaxParOps) /\ add_volume(v, TapeVolume)
    \/ \E n \in ParLimits :
          NoBatchYet /\ nops < MaxParOps /\ set_max_volumes(n) /\ UNCHANGED thrVars
    \/ \E op \in ParallelBatches, items \in ParItems, requested \in 0..MaxRequested :
          nops < MaxParOps /\ parallel_batch(op, items, FALSE, requested)
    \/ \E w \in 1..MaxRequested : batch_pass(w)
    \/ batch_return

SpecPar == Init /\ [][NextPar]_vars

\* C13: a parallel batch over n items with t requested threads runs
\* min(t, n, MAX_PARALLEL_OPERATIONS) workers on contiguous shards that cover
\* every index once, returns when all of them are done, has called the
\* single-item operation once per item, and reports total = n,
\* succeeded + failed = n and one failure entry per failed item
C13_ParallelShards ==
    batch.op \in ParallelBatches =>
       LET n == Len(batch.items)
           k == Len(batch.workers)
           failed_calls == {j \in 1..Len(batch.calls) : batch.outcomes[j] # ""}
       IN
       /\ batch.phase # "trapped"
       /\ batch.phase = "running" \/ (batch.phase = "returned" /\ n > 0) =>
             /\ k = Min(Min(batch.requested, n), MAX_PARALLEL_OPERATIONS)
             /\ \A w \in 1..k : batch.workers[w].start_idx <= batch.workers[w].end_idx
             /\ \A w \in 1..(k - 1) :
                   batch.workers[w].end_idx = batch.workers[w + 1].start_idx
             /\ \A i \in 0..(n - 1) :
                   Cardinality({w \in 1..k : /\ batch.workers[w].start_idx <= i
                                             /\ i < batch.workers[w].end_idx}) = 1
       /\ batch.phase = "returned" =>
             /\ \A w \in 1..k : batch.workers[w].i = batch.workers[w].end_idx
             /\ \A i \in 0..(n - 1) :
                   Cardinality({j \in 1..Len(batch.calls) : batch.calls[j] = i}) = 1
             /\ batch.total = n
             /\ batch.succeeded + batch.failed = n
             /\ batch.failed = Cardinality(failed_calls)
             /\ Len(batch.failures) = batch.failed
             /\ Range(batch.failures) =
                   {<<batch.items[batch.calls[j] + 1], batch.outcomes[j]>> :
                      j \in failed_calls}

\* parallel_add_volumes has returned from a call with distinct volsers and a
\* thread count between 1 and the number of items
ParallelAddReturned ==
    /\ batch.op = "parallel_add_volumes" /\ batch.phase = "returned"
    /\ NoDuplicates(batch.items)
    /\ batch.requested \in 1..Len(batch.items)

SameAsSequential ==
    LET sequential == add_volumes_batch_result(batch.start, batch.items, now) IN
    /\ volumes = sequential.volumes
    /\ batch.total = Len(batch.items)
    /\ batch.succeeded = sequential.succeeded
    /\ batch.failed = sequential.failed

\* C12 as stated: from any catalog, parallel_add_volumes over distinct volsers
\* ends with the volumes and the counts of the sequential add_volumes_batch
C12_ParallelAsSequential == ParallelAddReturned => SameAsSequential

\* C12 amended: the same, from a catalog with room for every item below the
\* volume limit
C12_ParallelAsSequentialWithRoom ==
    /\ ParallelAddReturned
    /\ Cardinality(DOMAIN batch.start) + Len(batch.items) <= max_volumes
    => SameAsSequential

\* three items went through two or three workers under a lowered limit that
\* left room for them, one of them failing
C12_Witness ==
    /\ ParallelAddReturned
    /\ Len(batch.items) = 3 /\ batch.requested >= 2
    /\ max_volumes = 3 /\ Cardinality(DOMAIN batch.start) = 0
    /\ batch.failed = 1 /\ batch.succeeded = 2
    /\ batch.calls # <<0, 1, 2>>

----------------------------------------------------------------------------
(* Claims about the lifecycle of a volume *)

\* the status of every stored volume but v is as it was
OtherStatusesKept(v) ==
    \A w \in (DOMAIN volumes \cap DOMAIN volumes') \ {v} :
       volumes'[w].status = volumes[w].status

C15_RoundTripStep ==
    /\ Called /\ last'.op = "add_dataset" =>
          IF last'.ok
          THEN LET v == datasets'[last'.key].volser IN
               /\ volumes'[v].status =
                     IF volumes[v].status = "SCRATCH" THEN "PRIVATE"
                     ELSE volumes[v].status
               /\ OtherStatusesKept(v)
          ELSE volumes' = volumes
    /\ Called /\ last'.op = "delete_dataset" =>
          IF last'.ok
          THEN LET v == datasets[last'.key].volser IN
               /\ v \in DOMAIN volumes =>
                     volumes'[v].status =
                        IF volumes'[v].datasets = <<>> /\ volumes[v].status = "PRIVATE"
                        THEN "SCRATCH" ELSE volumes[v].status
               /\ OtherStatusesKept(v)
          ELSE volumes' = volumes

\* C15: add_dataset makes a SCRATCH volume PRIVATE and changes no other status;
\* delete_dataset makes a PRIVATE volume SCRATCH when its list becomes empty
\* and changes no other status
C15_RoundTrip == [][C15_RoundTripStep]_vars

\* the round trip: the dataset added to a SCRATCH volume has just been deleted
\* and the volume, never mounted or handed out, is SCRATCH again
C15_Witness ==
    /\ last.op = "delete_dataset" /\ last.ok
    /\ \E v \in DOMAIN volumes :
          /\ volumes[v].status = "SCRATCH" /\ volumes[v].datasets = <<>>
          /\ volumes[v].mount_count = 0
          /\ records = <<AuditRecord("ADD_VOLUME", current_user, v),
                         AuditRecord("ADD_DATASET", current_user, last.key),
                         AuditRecord("DELETE_DATASET", current_user, last.key)>>

C16_MountStep ==
    Called /\ last'.op = "mount_volume" =>
       LET v == last'.key IN
       /\ last'.ok <=> /\ v \in DOMAIN volumes
                       /\ volumes[v].status \notin {"MOUNTED", "OFFLINE"}
       /\ IF last'.ok
          THEN volumes' = [volumes EXCEPT ![v].status = "MOUNTED",
                                          ![v].mount_count = volumes[v].mount_count + 1]
          ELSE volumes' = volumes

\* C16: mount_volume succeeds exactly on a stored volume that is neither
\* MOUNTED nor OFFLINE, then makes it MOUNTED and adds 1 to its mount_count,
\* and changes nothing when it fails
C16_Mount == [][C16_MountStep]_vars

\* a second mount of a mounted volume has just been refused
C16_Witness ==
    /\ last.op = "mount_volume" /\ ~last.ok /\ last.err = "VOLUME_MOUNTED"
    /\ volumes[last.key].status = "MOUNTED"
    /\ volumes[last.key].mount_count = 2

C17_StatusStep ==
    /\ Called /\ last'.op = "dismount_volume" /\ last'.ok =>
          /\ last'.key \in DOMAIN volumes
          /\ volumes[last'.key].status = "MOUNTED"
    /\ Called /\ last'.op = "set_volume_online" /\ last'.ok =>
          /\ last'.key \in DOMAIN volumes
          /\ volumes[last'.key].status = "OFFLINE"
    /\ Called /\ last'.op \in {"dismount_volume", "set_volume_online"} /\ last'.ok =>
          volumes'[last'.key].status =
             IF volumes'[last'.key].datasets = <<>> THEN "SCRATCH" ELSE "PRIVATE"

\* C17: dismount_volume succeeds only on a MOUNTED volume, set_volume_online
\* only on an OFFLINE one, and both leave the volume SCRATCH if its dataset
\* list is empty and PRIVATE otherwise
C17_StatusFromDatasets == [][C17_StatusStep]_vars

\* a volume that was PRIVATE and empty before its mount is SCRATCH after its
\* dismount
C17_Witness ==
    /\ last.op = "dismount_volume" /\ last.ok
    /\ volumes[last.key].status = "SCRATCH"
    /\ \E i \in 1..Len(records) :
          /\ records[i].operation = "ALLOCATE_SCRATCH"
          /\ records[i].target = last.key

----------------------------------------------------------------------------
(* scratch_volume among datasets with owners and tags, some of them moved   *)
(* to another volume by update_dataset.                                     *)

MaxScratchOps == 5  \* state-changing calls per behaviour of SpecScratch

ScratchVolsers == {"A01", "B01"}
ScratchNames == {"D1", "D2"}
ScratchDsAttrs == {<<"", {}>>, <<"U1", {"T1", "T2"}>>}

NextScratch ==
    \/ \E v \in ScratchVolsers : Alone(MaxScratchOps) /\ add_volume(v, TapeVolume)
    \/ \E n \in ScratchNames, v \in ScratchVolsers, a \in ScratchDsAttrs :
          Alone(MaxScratchOps)
          /\ add_dataset(n, WithDsAttrs([Dataset EXCEPT !.size_bytes = 1], v, a))
    \/ \E n \in ScratchNames, v \in ScratchVolsers :
          Alone(MaxScratchOps)
          /\ update_dataset(n, [StoredDataset(n) EXCEPT !.volser = v])
    \/ \E v \in ScratchVolsers : Alone(MaxScratchOps) /\ mount_volume(v)
    \/ \E v \in ScratchVolsers : Alone(MaxScratchOps) /\ scratch_volume(v)

SpecScratch == Init /\ [][NextScratch]_vars

\* idx2 is idx without the keys in gone
IndexWithout(idx, idx2, gone) ==
    \A x \in DOMAIN idx \cup DOMAIN idx2 :
       IndexFind(idx2, x) = IndexFind(idx, x) \ gone

C18_ScratchStep ==
    Called /\ last'.op = "scratch_volume" =>
       LET v == last'.key IN
       IF v \notin DOMAIN volumes \/ volumes[v].status = "MOUNTED"
       THEN ~last'.ok /\ catVars' = catVars /\ auditVars' = auditVars
       ELSE LET listed == Range(volumes[v].datasets) IN
            /\ last'.ok
            /\ DOMAIN datasets' = DOMAIN datasets \ listed
            /\ \A n \in DOMAIN datasets' : datasets'[n] = datasets[n]
            /\ IndexWithout(dataset_owner_index, dataset_owner_index', listed)
            /\ IndexWithout(dataset_tag_index, dataset_tag_index', listed)
            /\ volumes' = [volumes EXCEPT ![v].datasets = <<>>,
                                          ![v].used_bytes = 0,
                                          ![v].status = "SCRATCH"]
            /\ idxVars' = idxVars

\* C18: scratch_volume fails and changes nothing on an absent or MOUNTED
\* volume; otherwise the datasets in the volume's list leave the dataset map
\* and both dataset indices, the volume is SCRATCH with an empty list and
\* used_bytes 0, and nothing else changes
C18_Scratch == [][C18_ScratchStep]_vars

\* a volume that held an owned, tagged dataset has just been scratched while
\* another volume keeps its own owned, tagged dataset
C18_Witness ==
    /\ last.op = "scratch_volume" /\ last.ok
    /\ volumes[last.key].status = "SCRATCH" /\ volumes[last.key].datasets = <<>>
    /\ Cardinality({i \in 1..Len(records) : records[i].operation = "ADD_DATASET"}) = 2
    /\ \E n \in DOMAIN datasets :
          /\ DOMAIN datasets = {n}
          /\ datasets[n].volser # last.key
          /\ volumes[datasets[n].volser].datasets = <<n>>
          /\ IndexFind(dataset_owner_index, "U1") = {n}
          /\ IndexFind(dataset_tag_index, "T1") = {n}

----------------------------------------------------------------------------
(* Expiration and the dataset lifecycle: records with the default retention *)
(* or an expiration date within the model's time, the clock, and            *)
(* process_expirations in both modes.                                       *)

MaxExpOps == 5  \* state-changing calls per behaviour of SpecExp

\* a faulty test that takes expired records for due again; C19 does not
\* survive it
Expirable_AnyStatus(map, t) == {k \in DOMAIN map : map[k].expiration_date < t}

\* the records process_expirations counts at time t
Expirable(map, t) ==
    {k \in DOMAIN map : map[k].status # "EXPIRED" /\ map[k].expiration_date < t}

Expire(map, keys) ==
    [k \in DOMAIN map |->
       IF k \in keys THEN [map[k] EXCEPT !.status = "EXPIRED"] ELSE map[k]]

DryRunArg(dry_run) == IF dry_run THEN "dry_run" ELSE ""

process_expirations(dry_run) ==
    LET vols == Expirable(volumes, now)
        dss == Expirable(datasets, now)
        count == Cardinality(vols) + Cardinality(dss)
    IN
    /\ volumes' = IF dry_run THEN volumes ELSE Expire(volumes, vols)
    /\ datasets' = IF dry_run THEN datasets ELSE Expire(datasets, dss)
    /\ IF ~dry_run /\ count > 0
       THEN add_audit_record("PROCESS_EXPIRATIONS", "") /\ nops' = nops + 1
       ELSE UNCHANGED <<auditVars, nops>>
    /\ last' = Result("process_expirations", "", DryRunArg(dry_run), "", TRUE, "",
                      "", count)
    /\ UNCHANGED <<idxVars, dataset_owner_index, dataset_tag_index, envVars>>

ExpVolsers == {"A01"}
ExpNames == {"D1", "D2"}
ExpDates == {0, 2}

NextExp ==
    \/ \E v \in ExpVolsers, e \in ExpDates :
          Alone(MaxExpOps)
          /\ add_volume(v, [TapeVolume EXCEPT !.expiration_date = e])
    \/ \E n \in ExpNames, v \in ExpVolsers, e \in ExpDates :
          Alone(MaxExpOps)
          /\ add_dataset(n, [Dataset EXCEPT !.volser = v, !.size_bytes = 1,
                                            !.expiration_date = e])
    \/ \E n \in ExpNames : Alone(MaxExpOps) /\ migrate_dataset(n)
    \/ \E n \in ExpNames : Alone(MaxExpOps) /\ recall_dataset(n)
    \/ \E dry_run \in BOOLEAN : Alone(MaxExpOps) /\ process_expirations(dry_run)
    \/ Tick /\ UNCHANGED thrVars

SpecExp == Init /\ [][NextExp]_vars

\* map2 is map with exactly the records due at time t set to EXPIRED
ExpiredExactly(map, map2, t) ==
    /\ DOMAIN map2 = DOMAIN map
    /\ \A k \in DOMAIN map :
          map2[k] = IF map[k].status # "EXPIRED" /\ map[k].expiration_date < t
                    THEN [map[k] EXCEPT !.status = "EXPIRED"]
                    ELSE map[k]

Due(t) ==
    Cardinality({k \in DOMAIN volumes : /\ volumes[k].status # "EXPIRED"
                                        /\ volumes[k].expiration_date < t})
    + Cardinality({k \in DOMAIN datasets : /\ datasets[k].status # "EXPIRED"
                                           /\ datasets[k].expiration_date < t})

C19_ExpirationStep ==
    Called /\ last'.op = "process_expirations" =>
       /\ last'.count = Due(now)
       /\ idxVars' = idxVars
       /\ dataset_owner_index' = dataset_owner_index
       /\ dataset_tag_index' = dataset_tag_index
       /\ IF last'.arg = "dry_run"
          THEN volumes' = volumes /\ datasets' = datasets /\ auditVars' = auditVars
          ELSE /\ ExpiredExactly(volumes, volumes', now)
               /\ ExpiredExactly(datasets, datasets', now)
               /\ Due(now)' = 0
               /\ Due(now) = 0 =>
                     volumes' = volumes /\ datasets' = datasets /\ auditVars' = auditVars

\* C19: a dry run changes nothing and returns the number of records due; a
\* real run sets exactly those to EXPIRED and returns their number, after
\* which none is due, and a run that finds none due returns 0 and changes
\* nothing
C19_Expirations == [][C19_ExpirationStep]_vars

\* the second of two real runs has just returned 0: the first one expired a
\* volume and a dataset
C19_Witness ==
    /\ last.op = "process_expirations" /\ last.arg = "" /\ last.count = 0
    /\ \E v \in DOMAIN volumes : volumes[v].status = "EXPIRED"
    /\ \E n \in DOMAIN datasets : datasets[n].status = "EXPIRED"
    /\ records # <<>> /\ records[Len(records)].operation = "PROCESS_EXPIRATIONS"

C20_LifecycleCalls == {"migrate_dataset", "recall_dataset"}

\* C20 as stated: migrate_dataset takes ACTIVE to MIGRATED, recall_dataset
\* MIGRATED to RECALLED, no call of the two changes a status in another way,
\* and a failed call changes none
C20_StrictStep ==
    Called /\ last'.op \in C20_LifecycleCalls =>
       LET n == last'.key IN
       IF last'.ok
       THEN /\ last'.op = "migrate_dataset" =>
                  datasets[n].status = "ACTIVE" /\ datasets'[n].status = "MIGRATED"
            /\ last'.op = "recall_dataset" =>
                  datasets[n].status = "MIGRATED" /\ datasets'[n].status = "RECALLED"
       ELSE datasets' = datasets

C20_OnlyForward == [][C20_StrictStep]_vars

C20_Step ==
    Called /\ last'.op \in C20_LifecycleCalls =>
       LET n == last'.key IN
       /\ last'.op = "migrate_dataset" =>
             (last'.ok <=> n \in DOMAIN datasets /\ datasets[n].status # "MIGRATED")
       /\ last'.op = "recall_dataset" =>
             (last'.ok <=> n \in DOMAIN datasets /\ datasets[n].status = "MIGRATED")
       /\ datasets' =
             IF last'.ok
             THEN [datasets EXCEPT ![n].status =
                     IF last'.op = "migrate_dataset" THEN "MIGRATED" ELSE "RECALLED"]
             ELSE datasets

\* C20 amended: migrate_dataset takes a dataset of any status but MIGRATED to
\* MIGRATED and fails on a MIGRATED one, recall_dataset takes MIGRATED to
\* RECALLED and fails in every other status, and a failed call changes nothing
C20_Lifecycle == [][C20_Step]_vars

\* a recalled dataset has just been migrated again
C20_Witness ==
    /\ last.op = "migrate_dataset" /\ last.ok
    /\ datasets[last.key].status = "MIGRATED"
    /\ \E i \in 1..Len(records) :
          /\ records[i].operation = "RECALL_DATASET"
          /\ records[i].target = last.key

----------------------------------------------------------------------------
(* Reservation calls one by one, checked in SpecRes *)

SameReservation(v) ==
    /\ v \in DOMAIN volumes'
    /\ volumes'[v].reserved_by = volumes[v].reserved_by
    /\ volumes'[v].reservation_expires = volumes[v].reservation_expires

C21_DeniedStep ==
    \A v \in DOMAIN volumes :
       ( /\ Called /\ last'.op = "reserve_volume" /\ last'.key = v
         /\ is_reserved(volumes[v], now)
         /\ volumes[v].reserved_by # last'.arg ) =>
            /\ ~last'.ok
            /\ last'.err = "ACCESS_DENIED"
            /\ SameReservation(v)

\* C21: reserve_volume of a volume that another user holds fails with the
\* error ACCESS_DENIED and no other, and leaves reserved_by and
\* reservation_expires as they are
C21_ReserveAccessDenied == [][C21_DeniedStep]_vars

Cleared(vol) == [vol EXCEPT !.reserved_by = "", !.reservation_expires = 0]

C22_ReleaseStep ==
    /\ Called /\ last'.op = "release_volume" =>
          LET v == last'.key
              u == last'.arg
          IN
          IF /\ v \in DOMAIN volumes
             /\ is_reserved(volumes[v], now)
             /\ volumes[v].reserved_by = u
          THEN /\ last'.ok
               /\ volumes' = [volumes EXCEPT ![v] = Cleared(@)]
               /\ ~is_reserved(volumes'[v], now')
          ELSE /\ ~last'.ok
               /\ catVars' = catVars
               /\ auditVars' = auditVars
    /\ Called /\ last'.op = "reserve_volume" /\ last'.key \in DOMAIN volumes
       /\ volumes[last'.key].reserved_by = "" =>
          /\ last'.ok
          /\ volumes'[last'.key].reserved_by = last'.arg

\* C22: release_volume(V, u) fails and changes nothing unless u holds V; when u
\* does it succeeds and clears reserved_by and reservation_expires, V is not
\* reserved any more, and reserve_volume of a volume with cleared fields
\* succeeds for any user
C22_Release == [][C22_ReleaseStep]_vars

\* U2 has just reserved a volume that U1 had reserved and released
C22_Witness ==
    /\ last.op = "reserve_volume" /\ last.ok /\ last.arg = "U2"
    /\ Len(records) >= 3
    /\ records[Len(records) - 2].operation = "RESERVE_VOLUME"
    /\ records[Len(records) - 2].target = last.key
    /\ records[Len(records) - 1].operation = "RELEASE_VOLUME"
    /\ records[Len(records) - 1].target = last.key
    /\ volumes[last.key].reserved_by = "U2"

C23_ExtendStep ==
    Called /\ last'.op = "extend_reservation" =>
       LET v == last'.key
           u == last'.arg
       IN
       /\ last'.ok <=> /\ v \in DOMAIN volumes
                       /\ volumes[v].reserved_by = u
                       /\ is_reserved(volumes[v], now)
       /\ IF last'.ok
          THEN \E extra \in ResExtras :
                  /\ last'.arg2 = SecondsArg(extra)
                  /\ volumes' = [volumes EXCEPT
                                   ![v].reservation_expires = @ + extra]
          ELSE catVars' = catVars /\ auditVars' = auditVars

\* C23: extend_reservation(V, u, extra) succeeds exactly when u holds V; then
\* reservation_expires grows by extra and nothing else of V changes; otherwise
\* the call fails and changes nothing
C23_Extend == [][C23_ExtendStep]_vars

\* U1 has just extended a reservation by 2 that a reserve of duration 1 made
C23_Witness ==
    /\ last.op = "extend_reservation" /\ last.ok /\ last.arg2 = SecondsArg(2)
    /\ volumes[last.key].reserved_by = last.arg
    /\ volumes[last.key].reservation_expires = now + 3

SweepCalls == {"cleanup_expired_reservations", "release_volume", "reserve_volume"}

C24_SweepStep ==
    /\ Called /\ last'.op = "cleanup_expired_reservations" =>
          /\ DOMAIN volumes' = DOMAIN volumes
          /\ \A v \in DOMAIN volumes :
                volumes'[v] =
                   IF /\ volumes[v].reserved_by # ""
                      /\ volumes[v].reservation_expires <= now
                   THEN Cleared(volumes[v])
                   ELSE volumes[v]
          /\ last'.count = Cardinality({v \in DOMAIN volumes :
                                           volumes'[v] # volumes[v]})
          /\ idxVars' = idxVars /\ datasets' = datasets
    /\ ~(Called /\ last'.op \in SweepCalls) =>
          \A v \in DOMAIN volumes :
             ( /\ volumes[v].reserved_by # ""
               /\ volumes[v].reservation_expires <= now ) => SameReservation(v)

\* C24: cleanup_expired_reservations clears the two reservation fields of
\* exactly the volumes with a stored reservation that expires at or before
\* now, returns their number and changes nothing else; no other step (the
\* clock included) changes the fields of an expired reservation, except a
\* release or a new reserve
C24_Sweep == [][C24_SweepStep]_vars

\* a sweep has just cleared the one reservation among two volumes, after the
\* clock has moved
C24_Witness ==
    /\ last.op = "cleanup_expired_reservations" /\ last.count = 1
    /\ Cardinality(DOMAIN volumes) = 2
    /\ \A v \in DOMAIN volumes : volumes[v] = Cleared(volumes[v])
    /\ Len(records) >= 2
    /\ records[Len(records) - 1].operation = "RESERVE_VOLUME"
    /\ records[Len(records)].operation = "CLEANUP_RESERVATIONS"
    /\ now > 1

----------------------------------------------------------------------------
(* One volume through its life cycle, reserved for part of it *)

MaxOverlayOps == 5  \* state-changing calls per behaviour of SpecOverlay

OverlayVolser == "A01"
OverlayNames == {"D1", "D2"}
OverlayDurations == {1, 2}

NextOverlay ==
    \/ Alone(MaxOverlayOps) /\ add_volume(OverlayVolser, TapeVolume)
    \/ \E d \in OverlayDurations :
          Alone(MaxOverlayOps) /\ reserve_volume(OverlayVolser, "U1", d)
    \/ \E n \in OverlayNames :
          Alone(MaxOverlayOps)
          /\ add_dataset(n, [Dataset EXCEPT !.volser = OverlayVolser, !.size_bytes = 1])
    \/ Alone(MaxOverlayOps) /\ mount_volume(OverlayVolser)
    \/ Alone(MaxOverlayOps) /\ dismount_volume(OverlayVolser)
    \/ Alone(MaxOverlayOps) /\ scratch_volume(OverlayVolser)
    \/ Alone(MaxOverlayOps) /\ set_volume_offline(OverlayVolser)
    \/ Alone(MaxOverlayOps) /\ set_volume_online(OverlayVolser)
    \/ \E force \in BOOLEAN : Alone(MaxOverlayOps) /\ delete_volume(OverlayVolser, force)
    \/ Tick /\ UNCHANGED thrVars

SpecOverlay == Init /\ [][NextOverlay]_vars

OverlayCalls ==
    {"mount_volume", "dismount_volume", "scratch_volume", "set_volume_offline",
     "set_volume_online", "add_dataset"}

\* whether the call goes ahead on a volume of this status, reserved or not
OverlayAllows(op, key, status) ==
    CASE op = "mount_volume" -> status \notin {"MOUNTED", "OFFLINE"}
      [] op = "dismount_volume" -> status = "MOUNTED"
      [] op = "scratch_volume" -> status # "MOUNTED"
      [] op = "set_volume_offline" -> status # "MOUNTED"
      [] op = "set_volume_online" -> status = "OFFLINE"
      [] op = "add_dataset" -> /\ key \notin DOMAIN datasets
                               /\ Cardinality(DOMAIN datasets) < max_datasets

C25_OverlayStep ==
    LET v == OverlayVolser IN
    (Called /\ v \in DOMAIN volumes /\ is_reserved(volumes[v], now)) =>
       /\ last'.op = "delete_volume" =>
             ~last'.ok /\ catVars' = catVars /\ auditVars' = auditVars
       /\ last'.op \in OverlayCalls =>
             /\ last'.ok <=> OverlayAllows(last'.op, last'.key, volumes[v].status)
             /\ SameReservation(v)

\* C25: while V is reserved delete_volume(V, force) fails for both values of
\* force and changes nothing; mount_volume, dismount_volume, scratch_volume,
\* set_volume_offline, set_volume_online and add_dataset on V succeed or fail
\* by V's status and the dataset store alone, as on an unreserved volume, and
\* leave reserved_by and reservation_expires as they are
C25_Overlay == [][C25_OverlayStep]_vars

\* a forced delete has just been refused on a volume that was mounted and
\* dismounted while reserved
C25_Witness ==
    /\ last.op = "delete_volume" /\ last.arg = "force" /\ last.err = "VOLUME_RESERVED"
    /\ is_reserved(volumes[last.key], now)
    /\ Len(records) = 4
    /\ records[2].operation = "RESERVE_VOLUME"
    /\ records[3].operation = "MOUNT_VOLUME"
    /\ records[4].operation = "DISMOUNT_VOLUME"

----------------------------------------------------------------------------
(* Cloning and the entity limits *)

clone_volume(source_volser, new_volser) ==
    IF ~validate_volser(new_volser)
      THEN FailA("clone_volume", new_volser, source_volser, "INVALID_VOLSER")
    ELSE IF source_volser \notin DOMAIN volumes
      THEN FailA("clone_volume", new_volser, source_volser, "VOLUME_NOT_FOUND")
    ELSE IF new_volser \in DOMAIN volumes
      THEN FailA("clone_volume", new_volser, source_volser, "VOLUME_ALREADY_EXISTS")
    ELSE LET cloned == [volumes[source_volser] EXCEPT
                          !.datasets = <<>>, !.used_bytes = 0, !.mount_count = 0,
                          !.status = "SCRATCH", !.creation_date = now,
                          !.expiration_date = now + VOLUME_RETENTION,
                          !.reserved_by = "", !.reservation_expires = 0]
         IN
         /\ volumes' = Put(volumes, new_volser, cloned)
         /\ volume_owner_index' = IndexAdd(volume_owner_index, cloned.owner, new_volser)
         /\ volume_pool_index' = IndexAdd(volume_pool_index, cloned.pool, new_volser)
         /\ volume_tag_index' = IndexAddAll(volume_tag_index, cloned.tags, new_volser)
         /\ add_audit_record("CLONE_VOLUME", new_volser)
         /\ OkA("clone_volume", new_volser, source_volser, "")
         /\ UNCHANGED dsVars

\* Configuration::set_int("General", "max_datasets", value)
set_max_datasets(value) ==
    /\ max_datasets' = value
    /\ UNCHANGED <<catVars, auditVars, now, current_user, max_volumes, snapshots,
                   nops, last>>

MaxCapOps == 4  \* state-changing calls per behaviour of SpecCap

CapVolsers == {"A01", "B01", "C01"}
CapNames == {"D1", "D2", "D.3"}
CapLimits == {1, 2}

\* the limits are configured before the catalog is used
Unused == nops = 0 /\ last.op = "construct"

NextCap ==
    \/ \E n \in CapLimits : Unused /\ set_max_volumes(n) /\ UNCHANGED thrVars
    \/ \E n \in CapLimits : Unused /\ set_max_datasets(n) /\ UNCHANGED thrVars
    \/ \E v \in CapVolsers : Alone(MaxCapOps) /\ add_volume(v, TapeVolume)
    \/ \E n \in CapNames, v \in CapVolsers :
          Alone(MaxCapOps)
          /\ add_dataset(n, [Dataset EXCEPT !.volser = v, !.size_bytes = 1])
    \/ \E v \in CapVolsers, w \in CapVolsers : Alone(MaxCapOps) /\ clone_volume(v, w)
    \/ \E v \in CapVolsers : Alone(MaxCapOps) /\ delete_volume(v, TRUE)

SpecCap == Init /\ [][NextCap]_vars

\* C26: the number of stored volumes never exceeds max_volumes and the number
\* of stored datasets never exceeds max_datasets
C26_WithinLimits ==
    /\ Cardinality(DOMAIN volumes) <= max_volumes
    /\ Cardinality(DOMAIN datasets) <= max_datasets

----------------------------------------------------------------------------
(* Pools and snapshots *)

\* for each volume of keys: volume_pool_index_.update(old_name, new_name, volser)
RECURSIVE IndexUpdateAll(_, _, _, _)
IndexUpdateAll(idx, old_value, new_value, keys) ==
    IF keys = {} THEN idx
    ELSE LET k == CHOOSE x \in keys : TRUE
         IN  IndexUpdateAll(IndexUpdate(idx, old_value, new_value, k), old_value,
                            new_value, keys \ {k})

\* the loop rename_pool and merge_pools share
repool(op, audit, old_name, new_name) ==
    LET updated == {v \in DOMAIN volumes : volumes[v].pool = old_name} IN
    IF updated = {} THEN FailA(op, old_name, new_name, "POOL_NOT_FOUND")
    ELSE /\ volumes' = [v \in DOMAIN volumes |->
                          IF v \in updated THEN [volumes[v] EXCEPT !.pool = new_name]
                          ELSE volumes[v]]
         /\ volume_pool_index' =
               IndexUpdateAll(volume_pool_index, old_name, new_name, updated)
         /\ add_audit_record(audit, old_name)
         /\ OkA(op, old_name, new_name, "")
         /\ UNCHANGED <<volume_owner_index, volume_tag_index, dsVars>>

rename_pool(old_name, new_name) ==
    IF old_name = "" \/ new_name = ""
      THEN FailA("rename_pool", old_name, new_name, "INVALID_PARAMETER")
    ELSE repool("rename_pool", "RENAME_POOL", old_name, new_name)

merge_pools(source_pool, target_pool) ==
    IF source_pool = "" \/ target_pool = "" \/ source_pool = target_pool
      THEN FailA("merge_pools", source_pool, target_pool, "INVALID_PARAMETER")
    ELSE repool("merge_pools", "MERGE_POOLS", source_pool, target_pool)

move_volume_to_pool(volser, target_pool) ==
    IF volser \notin DOMAIN volumes
      THEN FailA("move_volume_to_pool", volser, target_pool, "VOLUME_NOT_FOUND")
    ELSE /\ volume_pool_index' =
               IndexUpdate(volume_pool_index, volumes[volser].pool, target_pool, volser)
         /\ volumes' = [volumes EXCEPT ![volser].pool = target_pool]
         /\ add_audit_record("MOVE_TO_POOL", volser)
         /\ OkA("move_volume_to_pool", volser, target_pool, "")
         /\ UNCHANGED <<volume_owner_index, volume_tag_index, dsVars>>

\* generate_snapshot_id: the volser and the time of the call
SnapshotId(volser, t) == <<volser, t>>

\* SnapshotManager keeps the last MAX_SNAPSHOT_HISTORY = 100 snapshots of a
\* volume, more than a behaviour of this model creates
create_volume_snapshot(volser) ==
    IF volser \notin DOMAIN volumes
      THEN Fail("create_volume_snapshot", volser, "VOLUME_NOT_FOUND")
    ELSE /\ snapshots' = Put(snapshots, SnapshotId(volser, now),
                             [volser |-> volser,
                              status_at_snapshot |-> volumes[volser].status,
                              tags_at_snapshot |-> volumes[volser].tags])
         /\ add_audit_record("CREATE_SNAPSHOT", volser)
         /\ Return("create_volume_snapshot", volser, "", TRUE, "", "", 0)
         /\ nops' = nops + 1
         /\ UNCHANGED <<catVars, now, current_user, max_volumes, max_datasets>>

restore_from_snapshot(snapshot_id) ==
    IF snapshot_id \notin DOMAIN snapshots
      THEN Fail("restore_from_snapshot", snapshot_id[1], "FILE_NOT_FOUND")
    ELSE LET snap == snapshots[snapshot_id] IN
         IF snap.volser \notin DOMAIN volumes
           THEN Fail("restore_from_snapshot", snap.volser, "VOLUME_NOT_FOUND")
         ELSE /\ volumes' = [volumes EXCEPT
                               ![snap.volser].status = snap.status_at_snapshot,
                               ![snap.volser].tags = snap.tags_at_snapshot]
              /\ add_audit_record("RESTORE_SNAPSHOT", snap.volser)
              /\ Ok("restore_from_snapshot", snap.volser)
              /\ UNCHANGED <<idxVars, dsVars>>

MaxSnapOps == 4  \* state-changing calls per behaviour of SpecSnap

SnapVolsers == {"A01", "B01"}
SnapPools == {"P1", "P2"}
SnapTags == {"T1"}
SnapAttrs == {<<"U1", "P1", {}>>, <<"U2", "P2", {"T1"}>>}
SnapValues == {"U1", "U2", "P1", "P2", "T1"}

NextSnap ==
    \/ \E v \in SnapVolsers, a \in SnapAttrs :
          Alone(MaxSnapOps) /\ add_volume(v, WithVolAttrs(TapeVolume, a))
    \/ \E v \in SnapVolsers, t \in SnapTags : Alone(MaxSnapOps) /\ add_volume_tag(v, t)
    \/ \E v \in SnapVolsers, t \in SnapTags : Alone(MaxSnapOps) /\ remove_volume_tag(v, t)
    \/ \E p \in SnapPools, q \in SnapPools : Alone(MaxSnapOps) /\ rename_pool(p, q)
    \/ \E p \in SnapPools, q \in SnapPools : Alone(MaxSnapOps) /\ merge_pools(p, q)
    \/ \E v \in SnapVolsers, p \in SnapPools :
          Alone(MaxSnapOps) /\ move_volume_to_pool(v, p)
    \/ \E v \in SnapVolsers, w \in SnapVolsers : Alone(MaxSnapOps) /\ clone_volume(v, w)
    \/ \E v \in SnapVolsers : Alone(MaxSnapOps) /\ create_volume_snapshot(v)
    \/ \E v \in SnapVolsers, t \in 1..MaxTime :
          Alone(MaxSnapOps) /\ restore_from_snapshot(SnapshotId(v, t))
    \/ Tick /\ UNCHANGED thrVars

SpecSnap == Init /\ [][NextSnap]_vars

\* C27: after every call, for every non-empty owner, pool and tag value, each
\* index holds key k under the value exactly when the stored record k carries
\* it
C27_IndexAgrees == \A x \in SnapValues : IndexExactAt(x)

\* the same for the owner and pool indices and for every call but
\* restore_from_snapshot
C27_PoolIndexAgrees ==
    \A x \in SnapValues :
       /\ get_volumes_by_owner(x) = VolumesWithOwner(x)
       /\ get_volumes_by_pool(x) = VolumesWithPool(x)

----------------------------------------------------------------------------
(* The audit log under additions, capacity changes and clear *)

MaxLogOps == 7  \* calls of AuditLog::add per behaviour of SpecLog

LogCapacities == {1, 3, 5, 6}

\* AuditLog::set_max_records(max)
set_max_records(max) ==
    LET r == IF Len(records) > max THEN prune(records, max, pruned_count)
             ELSE [records |-> records, pruned_count |-> pruned_count]
    IN
    /\ max_records' = max
    /\ records' = r.records
    /\ pruned_count' = r.pruned_count
    /\ last' = Result("set_max_records", "", "", "", TRUE, "", "", Len(r.records))
    /\ UNCHANGED <<catVars, envVars, nops, thrVars>>

\* AuditLog::clear()
clear ==
    /\ records' = <<>>
    /\ pruned_count' = 0
    /\ last' = Result("clear", "", "", "", TRUE, "", "", 0)
    /\ UNCHANGED <<catVars, max_records, envVars, nops, thrVars>>

NextLog ==
    \/ \E operation \in PruneOperations : add(operation)
    \/ \E max \in LogCapacities : set_max_records(max)
    \/ clear

SpecLog == InitPrune /\ [][NextLog]_vars

\* C28: for a capacity of at least 1 the log never holds more than
\* max_records records once a call has returned
C28_Bounded == max_records >= 1 => Len(records) <= max_records

\* seq without its first k elements
Drop(seq, k) == SubSeq(seq, k + 1, Len(seq))

C29_PrunedStep ==
    Called =>
       IF last'.op = "clear"
       THEN pruned_count' = 0 /\ records' = <<>>
       ELSE LET removed == pruned_count' - pruned_count
                appended == IF last'.op = "add"
                            THEN Append(records, records'[Len(records')])
                            ELSE records
            IN
            /\ removed >= 0
            /\ last'.op = "add" => records' # <<>> /\ records'[Len(records')].target = nops'
            /\ removed <= Len(appended)
            /\ records' = Drop(appended, removed)
            /\ Len(records') + pruned_count'
                 = Len(records) + pruned_count + (IF last'.op = "add" THEN 1 ELSE 0)
            /\ HoldsMostRecent'

\* C29: pruned_count falls only to 0 and only by clear, which empties the log;
\* on every other call it grows by exactly the number of records removed, the
\* records removed are the oldest, and records held + pruned_count grows by
\* one per record appended, so that the log holds the most recently appended
\* records in insertion order
C29_Cumulative == [][C29_PrunedStep]_vars

\* a capacity change has just returned: records have been pruned, none was
\* cleared, and the log still holds more records than the new capacity
C29_Witness ==
    /\ last.op = "set_max_records"
    /\ pruned_count >= 2
    /\ Len(records) >= 2
    /\ Len(records) + pruned_count = nops
    /\ Len(records) > max_records

----------------------------------------------------------------------------
(* Writers, readers and load_catalog under the catalog lock *)

MaxLockOps == 3  \* calls started per behaviour of SpecLock

LockVolsers == {"A01", "B01"}

\* the writers of SpecLock and their arguments
LockedCalls ==
    {<<"add_volume", v, "">> : v \in LockVolsers}
    \cup {<<"add_dataset", "D1", v>> : v \in LockVolsers}
    \cup {<<"delete_volume", v, f>> : v \in LockVolsers, f \in {"", "force"}}
    \cup {<<"scratch_volume", v, "">> : v \in LockVolsers}
    \cup {<<"add_volume_tag", v, "T1">> : v \in LockVolsers}
    \cup {<<"move_volume_to_pool", v, "P1">> : v \in LockVolsers}

\* the call from its first read of the catalog to its return
locked_call(op, key, arg) ==
    CASE op = "add_volume" -> add_volume(key, TapeVolume)
      [] op = "add_dataset" ->
            add_dataset(key, [Dataset EXCEPT !.volser = arg, !.size_bytes = 1])
      [] op = "delete_volume" -> delete_volume(key, arg = "force")
      [] op = "scratch_volume" -> scratch_volume(key)
      [] op = "add_volume_tag" -> add_volume_tag(key, arg)
      [] op = "move_volume_to_pool" -> move_volume_to_pool(key, arg)

\* a faulty entry that takes the lock shared; C30 does not survive it
locked_enter_Shared(t, c) ==
    /\ pc[t] = "idle"
    /\ lock_shared_ok(catalog_mutex)
    /\ catalog_mutex' = [catalog_mutex EXCEPT !.readers = @ \cup {t}]
    /\ pc' = [pc EXCEPT ![t] = "locked"]
    /\ call' = [call EXCEPT ![t] = [NoCall EXCEPT !.op = c[1], !.key = c[2],
                                                  !.arg = c[3]]]
    /\ UNCHANGED <<catVars, auditVars, envVars, nops, last, committed, claimed, batch>>

\* std::unique_lock<std::shared_mutex> lock(catalog_mutex_) of a writer
locked_enter(t, c) ==
    /\ pc[t] = "idle"
    /\ lock_exclusive_ok(catalog_mutex)
    /\ catalog_mutex' = [catalog_mutex EXCEPT !.writer = t]
    /\ pc' = [pc EXCEPT ![t] = "locked"]
    /\ call' = [call EXCEPT ![t] = [NoCall EXCEPT !.op = c[1], !.key = c[2],
                                                  !.arg = c[3]]]
    /\ UNCHANGED <<catVars, auditVars, envVars, nops, last, committed, claimed, batch>>

\* the body of the writer
locked_body(t) ==
    /\ pc[t] = "locked"
    /\ locked_call(call[t].op, call[t].key, call[t].arg)
    /\ pc' = [pc EXCEPT ![t] = "leave"]
    /\ UNCHANGED <<catalog_mutex, call, committed, claimed, batch>>

\* lock.unlock(), or the lock going out of scope at an error return
locked_exit(t) ==
    /\ pc[t] = "leave"
    /\ catalog_mutex' = [writer |-> IF catalog_mutex.writer = t THEN ""
                                    ELSE catalog_mutex.writer,
                         readers |-> catalog_mutex.readers \ {t}]
    /\ pc' = [pc EXCEPT ![t] = "idle"]
    /\ call' = [call EXCEPT ![t] = NoCall]
    /\ UNCHANGED <<catVars, auditVars, envVars, nops, last, committed, claimed, batch>>

\* the catalog files load_catalog may find: the VOLUME lines and the DATASET
\* lines with the fields a line carries
CatalogFiles ==
    [F0 |-> [volumes |-> <<>>, datasets |-> <<>>],
     F1 |-> [volumes |-> <<[volser |-> "A01", status |-> "PRIVATE", pool |-> "P1",
                            owner |-> "U1", used_bytes |-> 1]>>,
             datasets |-> <<[name |-> "D1", volser |-> "A01", status |-> "ACTIVE",
                             size_bytes |-> 1, owner |-> "U2"]>>],
     F2 |-> [volumes |-> <<[volser |-> "B01", status |-> "SCRATCH", pool |-> "",
                            owner |-> "", used_bytes |-> 0]>>,
             datasets |-> <<[name |-> "D2", volser |-> "A01", status |-> "MIGRATED",
                             size_bytes |-> 1, owner |-> ""]>>]]

\* load_catalog: std::unique_lock
load_lock(t, file) ==
    /\ pc[t] = "idle"
    /\ lock_exclusive_ok(catalog_mutex)
    /\ catalog_mutex' = [catalog_mutex EXCEPT !.writer = t]
    /\ pc' = [pc EXCEPT ![t] = "load_clear"]
    /\ call' = [call EXCEPT ![t] = [NoCall EXCEPT !.op = "load_catalog",
                                                  !.key = file]]
    /\ UNCHANGED <<catVars, auditVars, envVars, nops, last, committed, claimed, batch>>

\* volumes_.clear(); datasets_.clear()
load_clear(t) ==
    /\ pc[t] = "load_clear"
    /\ volumes' = [x \in {} |-> TapeVolume]
    /\ datasets' = [x \in {} |-> Dataset]
    /\ pc' = [pc EXCEPT ![t] = "load_volumes"]
    /\ UNCHANGED <<idxVars, dataset_owner_index, dataset_tag_index, auditVars,
                   envVars, nops, last, catalog_mutex, call, committed, claimed, batch>>

\* the VOLUME lines: volumes_[vol.volser] = vol
RECURSIVE load_volume_lines(_, _)
load_volume_lines(vols, lines) ==
    IF lines = <<>> THEN vols
    ELSE LET l == Head(lines) IN
         load_volume_lines(
            Put(vols, l.volser, [TapeVolume EXCEPT !.status = l.status,
                                                   !.pool = l.pool,
                                                   !.owner = l.owner,
                                                   !.used_bytes = l.used_bytes]),
            Tail(lines))

load_volumes(t) ==
    /\ pc[t] = "load_volumes"
    /\ volumes' = load_volume_lines(volumes, CatalogFiles[call[t].key].volumes)
    /\ pc' = [pc EXCEPT ![t] = "load_datasets"]
    /\ UNCHANGED <<idxVars, dsVars, auditVars, envVars, nops, last, catalog_mutex,
                   call, committed, claimed, batch>>

\* the DATASET lines: datasets_[ds.name] = ds and the volume's dataset list
RECURSIVE load_dataset_lines(_, _)
load_dataset_lines(st, lines) ==
    IF lines = <<>> THEN st
    ELSE LET l == Head(lines) IN
         load_dataset_lines(
            [volumes |-> IF l.volser \in DOMAIN st.volumes
                         THEN [st.volumes EXCEPT ![l.volser].datasets =
                                                    Append(@, l.name)]
                         ELSE st.volumes,
             datasets |-> Put(st.datasets, l.name,
                              [Dataset EXCEPT !.volser = l.volser,
                                              !.status = l.status,
                                              !.size_bytes = l.size_bytes,
                                              !.owner = l.owner])],
            Tail(lines))

load_datasets(t) ==
    /\ pc[t] = "load_datasets"
    /\ LET st == load_dataset_lines([volumes |-> volumes, datasets |-> datasets],
                                    CatalogFiles[call[t].key].datasets)
       IN  volumes' = st.volumes /\ datasets' = st.datasets
    /\ pc' = [pc EXCEPT ![t] = "rebuild_indices"]
    /\ UNCHANGED <<idxVars, dataset_owner_index, dataset_tag_index, auditVars,
                   envVars, nops, last, catalog_mutex, call, committed, claimed, batch>>

\* the loops of rebuild_indices over a map: index.add(attribute, key) and
\* index.add(tag, key) for each tag
RECURSIVE IndexBuild(_, _, _, _)
IndexBuild(idx, map, keys, attribute) ==
    IF keys = {} THEN idx
    ELSE LET k == CHOOSE x \in keys : TRUE
             added == CASE attribute = "owner" -> IndexAdd(idx, map[k].owner, k)
                        [] attribute = "pool" -> IndexAdd(idx, map[k].pool, k)
                        [] attribute = "tags" -> IndexAddAll(idx, map[k].tags, k)
         IN  IndexBuild(added, map, keys \ {k}, attribute)

\* rebuild_indices, called by load_catalog inside its lock
rebuild_indices(t) ==
    /\ pc[t] = "rebuild_indices"
    /\ volume_owner_index' = IndexBuild(EmptyIndex, volumes, DOMAIN volumes, "owner")
    /\ volume_pool_index' = IndexBuild(EmptyIndex, volumes, DOMAIN volumes, "pool")
    /\ volume_tag_index' = IndexBuild(EmptyIndex, volumes, DOMAIN volumes, "tags")
    /\ dataset_owner_index' = IndexBuild(EmptyIndex, datasets, DOMAIN datasets, "owner")
    /\ dataset_tag_index' = IndexBuild(EmptyIndex, datasets, DOMAIN datasets, "tags")
    /\ pc' = [pc EXCEPT ![t] = "load_return"]
    /\ UNCHANGED <<volumes, datasets, auditVars, envVars, nops, last, catalog_mutex,
                   call, committed, claimed, batch>>

\* return OperationResult::ok(): the unique_lock goes out of scope
load_return(t) ==
    /\ pc[t] = "load_return"
    /\ catalog_mutex' = [catalog_mutex EXCEPT !.writer = ""]
    /\ last' = Result("load_catalog", call[t].key, "", "", TRUE, "", "", 0)
    /\ nops' = nops + 1
    /\ pc' = [pc EXCEPT ![t] = "idle"]
    /\ call' = [call EXCEPT ![t] = NoCall]
    /\ UNCHANGED <<catVars, auditVars, envVars, committed, claimed, batch>>

NextLock ==
    \/ \E t \in Threads, c \in LockedCalls : Started < MaxLockOps /\ locked_enter(t, c)
    \/ \E t \in Threads : locked_body(t)
    \/ \E t \in Threads : locked_exit(t)
    \/ \E t \in Threads, file \in DOMAIN CatalogFiles :
          Started < MaxLockOps /\ load_lock(t, file)
    \/ \E t \in Threads : load_clear(t)
    \/ \E t \in Threads : load_volumes(t)
    \/ \E t \in Threads : load_datasets(t)
    \/ \E t \in Threads : rebuild_indices(t)
    \/ \E t \in Threads : load_return(t)
    \/ \E t \in Threads, l \in ConcLookups : lookup_lock(t, l[1], l[2])
    \/ \E t \in Threads : lookup_index(t)
    \/ \E t \in Threads : lookup_records(t)
    \/ \E t \in Threads : lookup_return(t)

SpecLock == Init /\ [][NextLock]_vars

C30_WriteStep ==
    catVars' # catVars =>
       \E t \in Threads :
          /\ pc'[t] # pc[t]
          /\ catalog_mutex.writer = t /\ catalog_mutex.readers = {}
          /\ catalog_mutex'.writer = t

\* C30: every step that changes the volume map, the dataset map or one of the
\* five indices is taken by the thread that holds catalog_mutex_ exclusively,
\* before and after the step, while no thread holds it shared
C30_WritesUnderExclusiveLock == [][C30_WriteStep]_vars

\* load_catalog has just rebuilt the indices of a loaded catalog that replaced
\* the volumes stored before, while the other thread waits to read
C30_Witness ==
    \E t \in Threads :
       /\ pc[t] = "load_return"
       /\ catalog_mutex.writer = t
       /\ DOMAIN volumes = {"A01"} /\ volumes["A01"].datasets = <<"D1">>
       /\ get_volumes_by_owner("U1") = {"A01"}
       /\ get_datasets_by_owner("U2") = {"D1"}
       /\ records # <<>> /\ records[1].target = "B01"

----------------------------------------------------------------------------
(* File I/O and the catalog lock, checked in SpecLock *)

\* the steps of load_catalog that read the volume file and the dataset file
ReadsFile(t) == pc[t] \in {"load_volumes", "load_datasets"}

HoldsCatalogLock(t) == catalog_mutex.writer = t \/ t \in catalog_mutex.readers

\* C31: a thread that is about to read or write a catalog file does not hold
\* the catalog lock, neither shared nor exclusive
C31_NoLockDuringIO == \A t \in Threads : ReadsFile(t) => ~HoldsCatalogLock(t)

----------------------------------------------------------------------------
(* Parallel batches always return a counted result, checked in SpecPar *)

\* C32: a parallel batch returns for every thread_count and every item list,
\* and the BatchResult it returns has total = n and succeeded + failed = n
C32_ParallelReturnsCounted ==
    batch.op \in ParallelBatches =>
       /\ batch.phase # "trapped"
       /\ batch.phase = "returned" =>
             /\ batch.total = Len(batch.items)
             /\ batch.succeeded + batch.failed = Len(batch.items)

----------------------------------------------------------------------------
(* get_scratch_pool against allocate_scratch_volume, checked in SpecAlloc *)

MaxCount == 2  \* largest count passed to get_scratch_pool

C33_View ==
    \A pool \in AllocPools :
       LET all == get_scratch_pool(0, pool) IN
       /\ Range(all) = {v \in DOMAIN volumes :
                           allocate_matches(volumes[v], pool, "", now)}
       /\ \A i, j \in 1..Len(all) : i < j => LexLess(Bytes(all[i]), Bytes(all[j]))
       /\ all = <<>> <=> allocate_scan(volumes, pool, "", now) = ""
       /\ all # <<>> => all[1] = allocate_scan(volumes, pool, "", now)
       /\ \A c \in 1..MaxCount :
             get_scratch_pool(c, pool) = SubSeq(all, 1, Min(c, Len(all)))

C33_AllocateStep ==
    Called /\ last'.op = "allocate_scratch_volume" /\ last'.arg2 = "" =>
       LET all == get_scratch_pool(0, last'.arg) IN
       IF all = <<>>
       THEN ~last'.ok /\ last'.err = "NO_SCRATCH_AVAILABLE"
       ELSE last'.ok /\ last'.ret = all[1]

\* C33: in every state get_scratch_pool(0, pool) lists, in ascending volser
\* order, exactly the volumes allocate_scratch_volume(pool) without a density
\* could claim; the next such allocation returns its first element and fails
\* with NO_SCRATCH_AVAILABLE exactly when it is empty; with c > 0 the result
\* is the first c elements of that list
C33_ScratchPoolIsAllocatorView == []C33_View /\ [][C33_AllocateStep]_vars

\* an allocation from pool P1 without a density has just taken the first of
\* two listed volumes: the list of the pool now holds the other one only
C33_Witness ==
    /\ last.op = "allocate_scratch_volume" /\ last.ok
    /\ last.arg = "P1" /\ last.arg2 = ""
    /\ Cardinality(DOMAIN volumes) = 2
    /\ Len(get_scratch_pool(0, "P1")) = 1
    /\ LexLess(Bytes(last.ret), Bytes(get_scratch_pool(1, "")[1]))

----------------------------------------------------------------------------
(* Volumes handed out by the allocator and what becomes of them: `claimed`  *)
(* records the volumes handed out and not given back since                  *)

MaxReuseOps == 5  \* state-changing calls per behaviour of SpecReuse

ReuseVolsers == {"A01", "B01"}

\* the volumes given back by the call: deleted, scratched, or left without
\* their last dataset
GivenBack ==
    {v \in claimed :
        \/ v \notin DOMAIN volumes'
        \/ last'.op = "scratch_volume" /\ last'.ok /\ last'.key = v
        \/ volumes[v].datasets # <<>> /\ volumes'[v].datasets = <<>>}

HandedOut ==
    IF last'.op = "allocate_scratch_volume" /\ last'.ok THEN {last'.ret} ELSE {}

InUse ==
    /\ nops < MaxReuseOps
    /\ claimed' = (claimed \ GivenBack) \cup HandedOut
    /\ UNCHANGED <<catalog_mutex, pc, call, committed, batch>>

NextReuse ==
    \/ \E v \in ReuseVolsers : add_volume(v, TapeVolume) /\ InUse
    \/ allocate_scratch_volume("", "") /\ InUse
    \/ \E v \in ReuseVolsers : mount_volume(v) /\ InUse
    \/ \E v \in ReuseVolsers : dismount_volume(v) /\ InUse
    \/ \E v \in ReuseVolsers : set_volume_offline(v) /\ InUse
    \/ \E v \in ReuseVolsers : set_volume_online(v) /\ InUse
    \/ \E v \in ReuseVolsers : scratch_volume(v) /\ InUse
    \/ \E v \in ReuseVolsers : delete_volume(v, FALSE) /\ InUse
    \/ \E v \in ReuseVolsers :
          add_dataset("D1", [Dataset EXCEPT !.volser = v, !.size_bytes = 1]) /\ InUse
    \/ delete_dataset("D1") /\ InUse

SpecReuse == Init /\ [][NextReuse]_vars

C34_AllocateStep ==
    Called /\ last'.op = "allocate_scratch_volume" /\ last'.ok =>
       last'.ret \notin claimed

\* C34: allocate_scratch_volume never returns a volume it handed out before
\* unless that volume was scratched, deleted or left without its last dataset
\* in between
C34_NotHandedOutTwice == [][C34_AllocateStep]_vars

----------------------------------------------------------------------------
(* Scratch volumes and their data *)

MaxDataOps == 4  \* state-changing calls per behaviour of SpecData

DataVolser == "A01"
\* what the caller of add_volume and update_volume supplies
DataVolumes ==
    {TapeVolume, [TapeVolume EXCEPT !.used_bytes = 1],
     [TapeVolume EXCEPT !.status = "PRIVATE", !.datasets = <<"D1">>, !.used_bytes = 1]}

NextData ==
    \/ \E vol \in DataVolumes : Alone(MaxDataOps) /\ add_volume(DataVolser, vol)
    \/ \E vol \in DataVolumes : Alone(MaxDataOps) /\ update_volume(DataVolser, vol)
    \/ Alone(MaxDataOps)
       /\ add_dataset("D1", [Dataset EXCEPT !.volser = DataVolser, !.size_bytes = 1])
    \/ Alone(MaxDataOps) /\ delete_dataset("D1")
    \/ Alone(MaxDataOps) /\ create_volume_snapshot(DataVolser)
    \/ \E t \in 1..MaxTime :
          Alone(MaxDataOps) /\ restore_from_snapshot(SnapshotId(DataVolser, t))
    \/ Alone(MaxDataOps) /\ mount_volume(DataVolser)
    \/ Alone(MaxDataOps) /\ dismount_volume(DataVolser)
    \/ Alone(MaxDataOps) /\ set_volume_offline(DataVolser)
    \/ Alone(MaxDataOps) /\ set_volume_online(DataVolser)
    \/ Tick /\ UNCHANGED thrVars

SpecData == Init /\ [][NextData]_vars

\* C35: a volume whose status is SCRATCH has an empty dataset list and
\* used_bytes 0
C35_ScratchHoldsNoData ==
    \A v \in DOMAIN volumes :
       volumes[v].status = "SCRATCH" =>
          volumes[v].datasets = <<>> /\ volumes[v].used_bytes = 0

----------------------------------------------------------------------------
(* Failed calls: every kind of failure of the single-item operations *)

MaxFailOps == 3  \* state-changing calls per behaviour of SpecFail

FailVolsers == {"A01", "B01", "VOL-01"}
FailNames   == {"D1", "D 4"}
FailTags    == {"T1", "T 3"}

NextFail ==
    \/ \E v \in FailVolsers : Alone(MaxFailOps) /\ add_volume(v, TapeVolume)
    \/ \E v \in FailVolsers : Alone(MaxFailOps) /\ update_volume(v, TapeVolume)
    \/ \E v \in FailVolsers, force \in BOOLEAN :
          Alone(MaxFailOps) /\ delete_volume(v, force)
    \/ \E n \in FailNames, v \in FailVolsers :
          Alone(MaxFailOps)
          /\ add_dataset(n, [Dataset EXCEPT !.volser = v, !.size_bytes = 1])
    \/ \E n \in FailNames : Alone(MaxFailOps) /\ delete_dataset(n)
    \/ \E v \in FailVolsers, t \in FailTags : Alone(MaxFailOps) /\ add_volume_tag(v, t)
    \/ \E v \in FailVolsers : Alone(MaxFailOps) /\ mount_volume(v)
    \/ \E v \in FailVolsers : Alone(MaxFailOps) /\ dismount_volume(v)
    \/ \E v \in FailVolsers : Alone(MaxFailOps) /\ set_volume_offline(v)
    \/ \E v \in FailVolsers : Alone(MaxFailOps) /\ set_volume_online(v)
    \/ \E v \in FailVolsers : Alone(MaxFailOps) /\ scratch_volume(v)
    \/ \E v \in FailVolsers, u \in ResUsers : Alone(MaxFailOps) /\ reserve_volume(v, u, 2)
    \/ \E v \in FailVolsers, u \in ResUsers : Alone(MaxFailOps) /\ release_volume(v, u)
    \/ Alone(MaxFailOps) /\ allocate_scratch_volume("", "")
    \/ nops < MaxFailOps /\ set_max_volumes(1) /\ UNCHANGED thrVars
    \/ nops < MaxFailOps /\ set_max_datasets(1) /\ UNCHANGED thrVars

SpecFail == Init /\ [][NextFail]_vars

C36_FailedStep ==
    Called /\ ~last'.ok => catVars' = catVars /\ auditVars' = auditVars

\* C36: a call of a single-item catalog operation that returns a failure
\* leaves the volume map, the dataset map, the five indices and the audit log
\* as they were
C36_FailureHasNoEffect == [][C36_FailedStep]_vars

\* a forced delete_volume has just been refused because of the reservation on
\* the volume, after the two calls that stored and reserved it
C36_Witness ==
    /\ last.op = "delete_volume" /\ ~last.ok /\ last.err = "VOLUME_RESERVED"
    /\ last.arg = "force"
    /\ last.key \in DOMAIN volumes
    /\ volumes[last.key].reserved_by = "U1"
    /\ Len(records) = 2

----------------------------------------------------------------------------
(* A held reservation, checked in SpecFail *)

\* the call is the holder's own release, renewal or extension of the
\* reservation on v
ByHolder(v) ==
    /\ Called
    /\ last'.op \in {"release_volume", "reserve_volume", "extend_reservation"}
    /\ last'.key = v /\ last'.arg = volumes[v].reserved_by

C37_HeldStep ==
    \A v \in DOMAIN volumes :
       is_reserved(volumes[v], now) /\ ~ByHolder(v) =>
          /\ v \in DOMAIN volumes'
          /\ volumes'[v].reserved_by = volumes[v].reserved_by
          /\ volumes'[v].reservation_expires = volumes[v].reservation_expires

\* C37: while a user holds an unexpired reservation on a volume, only that
\* user's release_volume, reserve_volume and extend_reservation change the
\* volume's reserved_by and reservation_expires
C37_ReservationNotDisplaced == [][C37_HeldStep]_vars

----------------------------------------------------------------------------
(* perform_health_check, which calls verify_integrity with the shared lock  *)
(* held, next to writers that wait for the lock                             *)

MaxNestOps == 3  \* calls started per behaviour of SpecNest

\* what verify_integrity reports: the datasets whose volume is not stored and
\* the entries of the volumes' dataset lists that are not stored
verify_integrity_issues ==
    {<<"dataset", n>> : n \in {x \in DOMAIN datasets :
                                  datasets[x].volser \notin DOMAIN volumes}}
    \cup {<<"volume", v>> : v \in {x \in DOMAIN volumes :
                                     \E i \in 1..Len(volumes[x].datasets) :
                                        volumes[x].datasets[i] \notin DOMAIN datasets}}

\* perform_health_check: std::shared_lock and the count of the scratch volumes
health_check_lock(t) ==
    /\ pc[t] = "idle"
    /\ lock_shared_ok(catalog_mutex)
    /\ catalog_mutex' = [catalog_mutex EXCEPT !.readers = @ \cup {t}]
    /\ pc' = [pc EXCEPT ![t] = "verify_integrity_lock"]
    /\ call' = [call EXCEPT ![t] =
                  [NoCall EXCEPT !.op = "perform_health_check",
                                 !.keys = {v \in DOMAIN volumes :
                                             is_available_for_scratch(volumes[v], now)}]]
    /\ UNCHANGED <<catVars, auditVars, envVars, nops, last, committed, claimed, batch>>

\* verify_integrity, called by perform_health_check: std::shared_lock on the
\* mutex the thread already holds shared. The behaviour is undefined; the
\* builds either grant the second lock, or queue it behind a writer that is
\* waiting, where it stays: the writer waits for this thread's first lock.
verify_integrity_lock(t) ==
    /\ pc[t] = "verify_integrity_lock"
    /\ \/ pc' = [pc EXCEPT ![t] = "verify_integrity"]
       \/ /\ \E u \in Threads : pc[u] = "lock_wait"
          /\ pc' = [pc EXCEPT ![t] = "verify_integrity_blocked"]
    /\ UNCHANGED <<catVars, auditVars, envVars, nops, last, catalog_mutex, call,
                   committed, claimed, batch>>

\* the loops of verify_integrity and its return, which gives up the second
\* lock only
verify_integrity(t) ==
    /\ pc[t] = "verify_integrity"
    /\ call' = [call EXCEPT ![t].result = verify_integrity_issues]
    /\ pc' = [pc EXCEPT ![t] = "health_check_return"]
    /\ UNCHANGED <<catVars, auditVars, envVars, nops, last, catalog_mutex,
                   committed, claimed, batch>>

HealthArg(healthy) == IF healthy THEN "" ELSE "ISSUES"

\* return result: healthy unless there are issues; the shared lock goes out
\* of scope
health_check_return(t) ==
    /\ pc[t] = "health_check_return"
    /\ catalog_mutex' = [catalog_mutex EXCEPT !.readers = @ \ {t}]
    /\ last' = Result("perform_health_check", "", "", "", call[t].result = {},
                      HealthArg(call[t].result = {}), "", Cardinality(call[t].keys))
    /\ nops' = nops + 1
    /\ pc' = [pc EXCEPT ![t] = "idle"]
    /\ call' = [call EXCEPT ![t] = NoCall]
    /\ UNCHANGED <<catVars, auditVars, envVars, committed, claimed, batch>>

\* a writer calls lock() on catalog_mutex_ and waits
lock_exclusive_wait(t, c) ==
    /\ pc[t] = "idle"
    /\ pc' = [pc EXCEPT ![t] = "lock_wait"]
    /\ call' = [call EXCEPT ![t] = [NoCall EXCEPT !.op = c[1], !.key = c[2],
                                                  !.arg = c[3]]]
    /\ UNCHANGED <<catVars, auditVars, envVars, nops, last, catalog_mutex,
                   committed, claimed, batch>>

\* the waiting writer is given the lock
lock_exclusive_acquire(t) ==
    /\ pc[t] = "lock_wait"
    /\ lock_exclusive_ok(catalog_mutex)
    /\ catalog_mutex' = [catalog_mutex EXCEPT !.writer = t]
    /\ pc' = [pc EXCEPT ![t] = "locked"]
    /\ UNCHANGED <<catVars, auditVars, envVars, nops, last, call, committed,
                   claimed, batch>>

NextNest ==
    \/ \E t \in Threads : Started < MaxNestOps /\ health_check_lock(t)
    \/ \E t \in Threads : verify_integrity_lock(t)
    \/ \E t \in Threads : verify_integrity(t)
    \/ \E t \in Threads : health_check_return(t)
    \/ \E t \in Threads, c \in LockedCalls :
          Started < MaxNestOps /\ lock_exclusive_wait(t, c)
    \/ \E t \in Threads : lock_exclusive_acquire(t)
    \/ \E t \in Threads : locked_body(t)
    \/ \E t \in Threads : locked_exit(t)

SpecNest == Init /\ [][NextNest]_vars

\* thread t waits for something only thread u can give
WaitsFor(t, u) ==
    \/ pc[t] = "lock_wait" /\ HoldsCatalogLock(u)
    \/ pc[t] = "verify_integrity_blocked" /\ pc[u] = "lock_wait"

\* C38: no thread asks for the catalog lock while it holds it, and no two
\* threads wait for each other
C38_NoDeadlock ==
    /\ \A t \in Threads : pc[t] = "verify_integrity_lock" => ~HoldsCatalogLock(t)
    /\ \A t, u \in Threads : ~(WaitsFor(t, u) /\ WaitsFor(u, t))

----------------------------------------------------------------------------
(* Reads after lock.unlock(), checked in SpecRace *)

\* the step in which allocate_scratch_volume builds its audit record and its
\* result from `volser`, the key of the map node it claimed
ReadsNode(t) == pc[t] = "allocate_unlocked" /\ pc'[t] = "idle"

C39_ReadStep ==
    \A t \in Threads :
       ReadsNode(t) => catalog_mutex.writer = t /\ ~call[t].dangling

\* C39: an operation reads the map node it worked on only while it holds the
\* catalog lock, so the node cannot have been erased by another thread
C39_NoReadAfterUnlock == [][C39_ReadStep]_vars

----------------------------------------------------------------------------
(* Reservations by two threads: the stretch of reserve_volume and           *)
(* release_volume up to lock.unlock() is one step, add_audit_record and the *)
(* return are a later one                                                   *)

MaxOrderOps == 3  \* calls started per behaviour of SpecOrder

OrderVolsers == {"A01", "B01"}

\* reserve_volume from its entry to lock.unlock(), or to its error return
reserve_claim(t, volser, user, duration) ==
    /\ pc[t] = "idle"
    /\ lock_exclusive_ok(catalog_mutex)
    /\ LET err == reserve_volume_error(volumes, volser, user, now) IN
       IF err # ""
       THEN FailA("reserve_volume", volser, user, err) /\ UNCHANGED thrVars
       ELSE /\ volumes' = [volumes EXCEPT
                             ![volser].reserved_by = user,
                             ![volser].reservation_expires = now + duration]
            /\ pc' = [pc EXCEPT ![t] = "reserve_unlocked"]
            /\ call' = [call EXCEPT ![t] = [NoCall EXCEPT !.op = "reserve_volume",
                                                          !.key = volser,
                                                          !.arg = user]]
            /\ UNCHANGED <<idxVars, dsVars, auditVars, envVars, nops, last,
                           catalog_mutex, committed, claimed, batch>>

\* release_volume from its entry to lock.unlock(), or to its error return
release_claim(t, volser, user) ==
    /\ pc[t] = "idle"
    /\ lock_exclusive_ok(catalog_mutex)
    /\ LET err == release_volume_error(volumes, volser, user, now) IN
       IF err # ""
       THEN FailA("release_volume", volser, user, err) /\ UNCHANGED thrVars
       ELSE /\ volumes' = [volumes EXCEPT ![volser].reserved_by = "",
                                          ![volser].reservation_expires = 0]
            /\ pc' = [pc EXCEPT ![t] = "release_unlocked"]
            /\ call' = [call EXCEPT ![t] = [NoCall EXCEPT !.op = "release_volume",
                                                          !.key = volser,
                                                          !.arg = user]]
            /\ UNCHANGED <<idxVars, dsVars, auditVars, envVars, nops, last,
                           catalog_mutex, committed, claimed, batch>>

\* after lock.unlock(): add_audit_record and return OperationResult::ok()
reservation_return(t) ==
    /\ pc[t] \in {"reserve_unlocked", "release_unlocked"}
    /\ add_audit_record(IF pc[t] = "reserve_unlocked" THEN "RESERVE_VOLUME"
                        ELSE "RELEASE_VOLUME", call[t].key)
    /\ OkA(call[t].op, call[t].key, call[t].arg, "")
    /\ pc' = [pc EXCEPT ![t] = "idle"]
    /\ call' = [call EXCEPT ![t] = NoCall]
    /\ UNCHANGED <<catVars, catalog_mutex, committed, claimed, batch>>

NextOrder ==
    \/ \E t \in Threads, v \in OrderVolsers :
          Started < MaxOrderOps /\ add_volume_by(t, v, TapeVolume)
    \/ \E t \in Threads, v \in OrderVolsers, u \in ResUsers :
          Started < MaxOrderOps /\ reserve_claim(t, v, u, 2)
    \/ \E t \in Threads, v \in OrderVolsers, u \in ResUsers :
          Started < MaxOrderOps /\ release_claim(t, v, u)
    \/ \E t \in Threads : reservation_return(t)

SpecOrder == Init /\ [][NextOrder]_vars

IsRecord(i, operation, v) ==
    records[i].operation = operation /\ records[i].target = v

\* C40: the audit records are in the order in which their mutations held the
\* write lock. A release_volume succeeds only on a volume reserved since its
\* last release, so in that order every RELEASE_VOLUME record of a volume has
\* a RESERVE_VOLUME record of the volume before it with no other
\* RELEASE_VOLUME of the volume in between
C40_LogInLockOrder ==
    \A v \in OrderVolsers, i \in 1..Len(records) :
       IsRecord(i, "RELEASE_VOLUME", v) =>
          \E j \in 1..(i - 1) :
             /\ IsRecord(j, "RESERVE_VOLUME", v)
             /\ \A k \in (j + 1)..(i - 1) : ~IsRecord(k, "RELEASE_VOLUME", v)

====
